---- MODULE Spec2Model ----
(***************************************************************************)
(* The windlass control core of SensESP-chain-counter: the two-relay       *)
(* position actuator (ChainController), the deployment sequencer           *)
(* (DeploymentManager) and the retrieval sequencer (RetrievalManager).     *)
(*                                                                         *)
(* Units.  Lengths are integers in centimetres (0.01 m), times are         *)
(* integers in milliseconds.  The float speeds (ms per metre) are exact    *)
(* rationals <<n, d>>, d > 0, in lowest terms.                             *)
(*                                                                         *)
(* unsigned long.  A 32-bit unsigned value u is the integer u when          *)
(* u < 2^31 and u - 2^32 otherwise (its two's complement reading), so that *)
(* sums and differences wrap as the hardware's do; ult is the unsigned     *)
(* order.  millis() is such a value: clock = 0 is millis() = 0 and         *)
(* clock = -100 is millis() = 2^32 - 100, a hundred milliseconds before    *)
(* the counter wraps.  All millis() reads of one handler return the same   *)
(* value.                                                                  *)
(***************************************************************************)
EXTENDS Integers, Sequences, FiniteSets, TLC

VARIABLES
    clock,      \* millis()
    rode,       \* accumulator_->get(): deployed rode, cm
    depthRaw,   \* depthListener_->get(): last depth reading
    slack,      \* horizontalSlack_->get(): published horizontal slack, cm
    cc,         \* the ChainController object
    pins,       \* the two relay outputs: [up, down]
    prefs,      \* the "speeds" namespace of the persisted store
    relayLog,   \* pin states after each digitalWrite of the last handler
    op,         \* the last handler that ran: its name, its argument, what
                \* the actuator was when it was entered, whether the move
                \* had outlived its timeout, whether the call changed nothing
    moveStart,  \* the instant the move in progress was commanded (0 when idle)
    cals,       \* speed calibrations so far
    beat,       \* flips at each firing of the repeating notify timer
    distRaw,    \* distanceListener_->get(): last bow-to-anchor distance
    windRaw,    \* windSpeedListener_->get(): last apparent wind speed
    dm,         \* the DeploymentManager object
    rm,         \* the RetrievalManager object
    loop,       \* the event loop: the timers the sequencers have scheduled
    stages,     \* the stages the deployment run in progress (or the last
                \* one) has entered, in order
    starts,     \* start() calls made on the sequencers so far
    geo,        \* the last computeTargetHorizontalDistance call: its chain
                \* length, its depth, what it returned
    tides,      \* tideHeightNowListener_->get() and
                \* tideHeightHighListener_->get(): [now, high]
    lastSwitch  \* the last slack pause or resume of the raise in progress:
                \* whether there was one, and when

vars == <<clock, rode, depthRaw, slack, cc, pins, prefs, relayLog, op,
          moveStart, cals, beat, distRaw, windRaw, dm, rm, loop, stages,
          starts, geo, tides, lastSwitch>>

----------------------------------------------------------------------------
(* Bounds of the exploration *)

MaxCals == 1           \* commands are accepted until this many calibrations
RodeWindow == 1        \* pulses explored either side of a start position

(* Instants at which handlers run, around the wrap of millis(): they are    *)
(* 100, 200, 3000, 3100 and 3200 ms apart, at and around the thresholds of  *)
(* the calibration and of the slack cooldown.  Commands arrive at these     *)
(* instants; time also passes to the deadline of the move in progress.      *)
ClockGrid == {-100, 0, 100, 3100}

(* The installation: the limits main.cpp passes to the constructor          *)
(* (min_length 2 m, max_chain 80 m, stop_before_max = max_chain - 5 m) and  *)
(* the configured gypsy circumference, the rode moved by one counter pulse. *)
Config == [min_length |-> 200, max_length |-> 8000, stop_before_max |-> 7500,
           gypsy_circum |-> 100]
RodeStarts == {600}
Amounts == {0, 1, 100}

(* Commands alone, over the whole chain: rode lengths at and between the    *)
(* limits, amounts from a retraction to one whose expected time nears 2^32  *)
(* ms (4 294 965 m at 1000 ms/m) and one whose expected time exceeds it.    *)
CmdRodes == {0, 200, 500, 7000, 7500, 8000}
CmdAmounts == {-100, 0, 1, 2, 1000, 429496500, 500000000}
SlackReadings == {0, 50, 100}

----------------------------------------------------------------------------
(* Sensor readings: a float that may be NaN or infinite *)

Num(v) == [k |-> "num", v |-> v]
NaN == [k |-> "nan", v |-> 0]
Inf == [k |-> "inf", v |-> 0]
DepthReadings == {NaN, Num(100)}

(* Exact rationals for the float speeds *)

Abs(x) == IF x < 0 THEN -x ELSE x

gcd[a \in Nat, b \in Nat] == IF b = 0 THEN a ELSE gcd[b, a % b]

rat[n \in Int, d \in Int] ==
    LET g == gcd[Abs(n), Abs(d)]
        s == IF d < 0 THEN -1 ELSE 1
    IN  <<(s * n) \div g, (s * d) \div g>>

ratAdd[p \in Int \X Int, q \in Int \X Int] ==
    rat[p[1] * q[2] + q[1] * p[2], p[2] * q[2]]

ratMul[p \in Int \X Int, q \in Int \X Int] ==
    LET a == rat[p[1], q[2]]
        b == rat[q[1], p[2]]
    IN  rat[a[1] * b[1], a[2] * b[2]]

Rat(n, d) == rat[n, d]
RatAdd(p, q) == ratAdd[p, q]
RatMul(p, q) == ratMul[p, q]
RatLess(p, q) == p[1] * q[2] < q[1] * p[2]

(* unsigned long arithmetic *)

ult(a, b) == IF (a < 0) = (b < 0) THEN a < b ELSE b < 0

WrapAdd(a, k) == IF a > 2147483647 - k
                 THEN (a - 2147483647 - 1) + (k - 2147483647 - 1)
                 ELSE a + k

(* Naturals too wide for one word, as <<h, l>> = h * 65536 + l, l < 65536 *)

WAdd(w, k) == LET l == w[2] + (k % 65536)
              IN  <<w[1] + (k \div 65536) + (l \div 65536), l % 65536>>

WDbl(w) == <<(2 * w[1]) + ((2 * w[2]) \div 65536), (2 * w[2]) % 65536>>

(* a * n = q * D + r with 0 <= r < D: at once when the product fits a     *)
(* word, by doubling otherwise                                            *)
RECURSIVE WMulDiv(_, _, _)
WMulDiv(a, n, D) ==
    IF n = 0 THEN [q |-> <<0, 0>>, r |-> 0]
    ELSE IF a <= 2147483647 \div n
    THEN [q |-> <<((a * n) \div D) \div 65536, ((a * n) \div D) % 65536>>,
          r |-> (a * n) % D]
    ELSE LET h == WMulDiv(a, n \div 2, D)
             s == (2 * h.r) + ((n % 2) * (a % D))
         IN  [q |-> WAdd(WAdd(WDbl(h.q), (n % 2) * (a \div D)), s \div D),
              r |-> s % D]

(* (unsigned long)x for a float x >= 0 with integer part w.  The conversion *)
(* of a value that does not fit is undefined: ub is what it then yields.    *)
FloatToUnsignedLong(w, ub) ==
    IF w[1] >= 65536 THEN ub
    ELSE IF w[1] >= 32768 THEN (w[1] - 65536) * 65536 + w[2]
    ELSE w[1] * 65536 + w[2]

(* What an out-of-range conversion can yield: 0 or the largest value *)
UBCast == {0, -1}

----------------------------------------------------------------------------
(* ChainController *)

PAUSE_SLACK_M == 20
RESUME_SLACK_M == 100
SLACK_COOLDOWN_MS == 3000
BOW_HEIGHT_M == 200
FINAL_PULL_THRESHOLD_M == 300
smoothing_factor_ == <<1, 5>>
DefaultSpeed == <<1000, 1>>

(* <<upSpeed_, downSpeed_>> when the exploration starts: the defaults, or   *)
(* what a 1 m raise in 3.2 s and a 3 m lower in 1 s have left.             *)
SpeedStarts == {<<DefaultSpeed, DefaultSpeed>>, <<<<1440, 1>>, <<2600, 3>>>>}

(* A handler threads m = [cc, pins, prefs, log, ub] through the calls it     *)
(* makes: the object, the pins, the store, the relay writes so far, and     *)
(* what an undefined conversion yields in this run.                         *)

digitalWrite(m, pin, v) ==
    LET p == [m.pins EXCEPT ![pin] = v]
    IN  [m EXCEPT !.pins = p, !.log = Append(@, p)]

getCurrentDepth(raw) ==
    IF raw.k # "num" \/ raw.v <= 1 THEN 0 ELSE raw.v

saveSpeedsToPrefs(m) ==
    [m EXCEPT !.prefs = [upSpeed |-> m.cc.upSpeed_, downSpeed |-> m.cc.downSpeed_]]

updateTimeout(distance, speed_ms_per_m, ub) ==
    IF RatLess(<<1, 100>>, speed_ms_per_m) /\ distance > 1
    THEN LET product == WMulDiv(distance, speed_ms_per_m[1],
                                100 * speed_ms_per_m[2]).q
             expected_time_ms == FloatToUnsignedLong(product, ub)
         IN  WrapAdd(expected_time_ms, 5000)
    ELSE 10000

(* a smoothing that weighs the raw speed 1.2 and the old one -0.2 *)
ewmaOvershoots(raw, old) ==
    RatAdd(RatMul(<<6, 5>>, raw), RatMul(<<-1, 5>>, old))

(* the smoothing with the sign of the raw term reversed *)
ewmaReversed(raw, old) ==
    RatAdd(RatMul(smoothing_factor_, <<-raw[1], raw[2]>>),
           RatMul(RatAdd(<<1, 1>>, <<-smoothing_factor_[1], smoothing_factor_[2]>>), old))

ewma(raw, old) ==
    RatAdd(RatMul(smoothing_factor_, raw),
           RatMul(RatAdd(<<1, 1>>, <<-smoothing_factor_[1], smoothing_factor_[2]>>), old))

calcSpeed(m, start_time, start_position, now, current_position) ==
    IF start_time = 0 THEN m
    ELSE
      LET duration_ms == now - start_time
          delta_distance == current_position - start_position
          raw == Rat(100 * duration_ms, Abs(delta_distance))
          m1 == IF Abs(delta_distance) >= 1 /\ ~ult(duration_ms, 100)
                THEN IF m.cc.state_ = "LOWERING"
                     THEN saveSpeedsToPrefs(
                            [m EXCEPT !.cc.downSpeed_ = ewma(raw, @)])
                     ELSE IF m.cc.state_ = "RAISING"
                     THEN saveSpeedsToPrefs(
                            [m EXCEPT !.cc.upSpeed_ = ewma(raw, @)])
                     ELSE m
                ELSE m
      IN  [m1 EXCEPT !.cc.movement_start_time_ = 0, !.cc.start_position_ = 0]

(* stop that leaves the raise relay as it is *)
stopLeavesRelay(m, now, pos) ==
    IF m.cc.state_ = "IDLE" THEN m
    ELSE
      LET m2 == digitalWrite(m, "down", FALSE)
          m3 == calcSpeed(m2, m2.cc.movement_start_time_, m2.cc.start_position_,
                          now, pos)
      IN  [m3 EXCEPT !.cc.state_ = "IDLE",
                     !.cc.paused_for_slack_ = FALSE,
                     !.cc.last_slack_action_time_ = 0]

(* stop that leaves the pause bookkeeping as it was *)
stopKeepsPause(m, now, pos) ==
    IF m.cc.state_ = "IDLE" THEN m
    ELSE
      LET m1 == digitalWrite(m, "up", FALSE)
          m2 == digitalWrite(m1, "down", FALSE)
          m3 == calcSpeed(m2, m2.cc.movement_start_time_, m2.cc.start_position_,
                          now, pos)
      IN  [m3 EXCEPT !.cc.state_ = "IDLE"]

stop(m, now, pos) ==
    IF m.cc.state_ = "IDLE" THEN m
    ELSE
      LET m1 == digitalWrite(m, "up", FALSE)
          m2 == digitalWrite(m1, "down", FALSE)
          m3 == calcSpeed(m2, m2.cc.movement_start_time_, m2.cc.start_position_,
                          now, pos)
      IN  [m3 EXCEPT !.cc.state_ = "IDLE",
                     !.cc.paused_for_slack_ = FALSE,
                     !.cc.last_slack_action_time_ = 0]

controlLowering(m, now, current_pos) ==
    IF current_pos >= m.cc.target_ \/ current_pos >= m.cc.stop_before_max_
    THEN LET m1 == digitalWrite(m, "down", FALSE)
             m2 == calcSpeed(m1, m1.cc.movement_start_time_,
                             m1.cc.start_position_, now, current_pos)
         IN  [m2 EXCEPT !.cc.state_ = "IDLE"]
    ELSE digitalWrite(m, "down", TRUE)

controlRaising(m, now, current_pos, depthReading, current_slack) ==
    IF current_pos <= m.cc.target_ \/ current_pos <= m.cc.min_length_
    THEN LET m1 == digitalWrite(m, "up", FALSE)
             m2 == calcSpeed(m1, m1.cc.movement_start_time_,
                             m1.cc.start_position_, now, current_pos)
         IN  [m2 EXCEPT !.cc.state_ = "IDLE", !.cc.paused_for_slack_ = FALSE]
    ELSE
      LET depth == getCurrentDepth(depthReading)
          inFinalPull == current_pos <= depth + BOW_HEIGHT_M + FINAL_PULL_THRESHOLD_M
          paused == m.cc.paused_for_slack_
          last == m.cc.last_slack_action_time_
          time_since_last_action == now - last
      IN  IF inFinalPull
          THEN IF ~paused THEN digitalWrite(m, "up", TRUE) ELSE m
          ELSE IF ~paused /\ current_slack < PAUSE_SLACK_M
          THEN IF ~ult(time_since_last_action, SLACK_COOLDOWN_MS) \/ last = 0
               THEN [digitalWrite(m, "up", FALSE)
                       EXCEPT !.cc.paused_for_slack_ = TRUE,
                              !.cc.last_slack_action_time_ = now]
               ELSE m
          ELSE IF paused /\ current_slack >= RESUME_SLACK_M
          THEN IF ~ult(time_since_last_action, SLACK_COOLDOWN_MS)
               THEN [digitalWrite(m, "up", TRUE)
                       EXCEPT !.cc.paused_for_slack_ = FALSE,
                              !.cc.last_slack_action_time_ = now]
               ELSE m
          ELSE IF ~paused THEN digitalWrite(m, "up", TRUE) ELSE m

control(m, now, current_pos, depthReading, current_slack) ==
    IF m.cc.state_ = "IDLE" THEN m
    ELSE IF m.cc.movement_start_time_ = 0 THEN m
    ELSE IF ult(m.cc.move_timeout_, now - m.cc.movement_start_time_)
    THEN stop(m, now, current_pos)
    ELSE IF m.cc.state_ = "LOWERING"
    THEN controlLowering(m, now, current_pos)
    ELSE controlRaising(m, now, current_pos, depthReading, current_slack)

(* the lowering limits without the stop-before-max one *)
lowerTargetToMax(c, current, amount) ==
    LET t0 == current + amount
        t1 == IF t0 > c.max_length_ THEN c.max_length_ ELSE t0
    IN  IF t1 < c.min_length_ THEN c.min_length_ ELSE t1

lowerTarget(c, current, amount) ==
    LET t0 == current + amount
        t1 == IF t0 > c.max_length_ THEN c.max_length_ ELSE t0
        t2 == IF t1 > c.stop_before_max_ THEN c.stop_before_max_ ELSE t1
    IN  IF t2 < c.min_length_ THEN c.min_length_ ELSE t2

raiseTarget(c, current, amount) ==
    LET t0 == current - amount
        t1 == IF t0 < c.min_length_ THEN c.min_length_ ELSE t0
    IN  IF t1 > c.max_length_ THEN c.max_length_ ELSE t1

(* lowerAnchor without the write that de-energizes the raise relay *)
lowerAnchorNoInterlock(m, now, current, amount, depthReading, current_slack) ==
    LET m1 == [m EXCEPT !.cc.start_position_ = current,
                        !.cc.movement_start_time_ = now,
                        !.cc.target_ = lowerTarget(m.cc, current, amount),
                        !.cc.move_timeout_ = updateTimeout(amount, m.cc.downSpeed_, m.ub),
                        !.cc.state_ = "LOWERING"]
        m3 == digitalWrite(m1, "down", TRUE)
    IN  control(m3, now, current, depthReading, current_slack)

lowerAnchor(m, now, current, amount, depthReading, current_slack) ==
    LET m1 == [m EXCEPT !.cc.start_position_ = current,
                        !.cc.movement_start_time_ = now,
                        !.cc.target_ = lowerTarget(m.cc, current, amount),
                        !.cc.move_timeout_ = updateTimeout(amount, m.cc.downSpeed_, m.ub),
                        !.cc.state_ = "LOWERING"]
        m2 == digitalWrite(m1, "up", FALSE)
        m3 == digitalWrite(m2, "down", TRUE)
    IN  control(m3, now, current, depthReading, current_slack)

raiseAnchor(m, now, current, amount, depthReading, current_slack) ==
    LET m1 == [m EXCEPT !.cc.start_position_ = current,
                        !.cc.movement_start_time_ = now,
                        !.cc.target_ = raiseTarget(m.cc, current, amount),
                        !.cc.move_timeout_ = updateTimeout(amount, m.cc.upSpeed_, m.ub),
                        !.cc.state_ = "RAISING",
                        !.cc.paused_for_slack_ = FALSE,
                        !.cc.last_slack_action_time_ = 0]
        m2 == digitalWrite(m1, "down", FALSE)
        m3 == digitalWrite(m2, "up", TRUE)
    IN  control(m3, now, current, depthReading, current_slack)

----------------------------------------------------------------------------
(* DeploymentManager *)
(*                                                                          *)
(* Distances are readings in centimetres, the boat speed is a reading in    *)
(* millimetres per second, forces are integers in hundredths of a newton,   *)
(* the catenary factor is an integer in thousandths and the accumulated     *)
(* demand an integer in tenths of a millimetre; every quotient and every    *)
(* square root is truncated to its unit.  A reading that is not a number    *)
(* propagates as the float arithmetic propagates it.  The members that are  *)
(* only ever written (_lastDistanceAtDeploymentCommand,                     *)
(* lastRawDistanceForEWMA, targetChainLength) are left out.                 *)

MIN_DEPLOY_THRESHOLD_M == 100
DECISION_WINDOW_MS == 1000

(* enum Stage after IDLE, in declaration order *)
Stage == <<"DROP", "WAIT_TIGHT", "HOLD_DROP", "DEPLOY_30", "WAIT_30",
           "HOLD_30", "DEPLOY_75", "WAIT_75", "HOLD_75", "DEPLOY_100",
           "COMPLETE">>

NegInf == [k |-> "-inf", v |-> 0]

(* a >= b on floats: false as soon as one side is not a number *)
GreaterEq(a, b) ==
    \/ a.k = "num" /\ b.k = "num" /\ a.v >= b.v
    \/ a.k = "inf" /\ b.k = "num"

sqrtBetween[n \in Nat, lo \in Nat, hi \in Nat] ==
    IF lo >= hi THEN lo
    ELSE LET mid == (lo + hi + 1) \div 2
         IN  IF mid * mid <= n THEN sqrtBetween[n, mid, hi]
             ELSE sqrtBetween[n, lo, mid - 1]

sqrt(x) == IF x < 0 THEN NaN ELSE Num(sqrtBetween[x, 0, 46340])

computeTargetHorizontalDistance(chainLength, anchorDepth) ==
    sqrt((chainLength * chainLength) - (anchorDepth * anchorDepth))

(* wind speed in cm/s; 10 knots is 514 cm/s; 0.5 * 1.225 * 1.2 * 15 is 11.025 *)
estimateHorizontalForce(windReading) ==
    LET windSpeed == IF windReading.k # "num" \/ windReading.v < 0
                     THEN 514 ELSE windReading.v
        windForce == (((windSpeed * windSpeed) \div 100) * 11025) \div 1000
        totalForce == windForce + 3000
    IN  IF totalForce > 200000 THEN 200000
        ELSE IF totalForce < 3000 THEN 3000 ELSE totalForce

(* w / 8 = 2.2 * 9.81 / 8 is 2.7 to two figures *)
computeCatenaryReductionFactor(chainLength, anchorDepth, horizontalForce) ==
    IF horizontalForce < 5000
    THEN LET d == IF anchorDepth > 100 THEN anchorDepth ELSE 100
         IN  IF chainLength < 3 * d THEN 900
             ELSE IF chainLength < 5 * d THEN 850 ELSE 800
    ELSE
      LET straightLineDistance ==
              computeTargetHorizontalDistance(chainLength, anchorDepth)
          catenarySagReduction ==
              (((chainLength * chainLength) \div (horizontalForce \div 100)) * 27)
                 \div 1000
          reductionFactor ==
              ((straightLineDistance.v - catenarySagReduction) * 1000)
                 \div straightLineDistance.v
      IN  IF straightLineDistance.k # "num" THEN 990
          ELSE IF straightLineDistance.v = 0
          THEN IF catenarySagReduction = 0 THEN 990 ELSE 800
          ELSE IF reductionFactor > 990 THEN 990
          ELSE IF reductionFactor < 800 THEN 800 ELSE reductionFactor

scaled(distance, factor) ==
    IF distance.k = "num" THEN Num((distance.v * factor) \div 1000) ELSE distance

(* the validity test without its upper limit *)
isAutoAnchorValidNoMax(depthReading) ==
    /\ depthReading.k = "num"
    /\ ~(depthReading.v < 300)

isAutoAnchorValid(depthReading) ==
    /\ depthReading.k = "num"
    /\ ~(depthReading.v < 300 \/ depthReading.v > 4500)

(* e is what the handler reads from its environment: the clock, the         *)
(* accumulator and the listeners                                            *)
startSpeedMeasurement(m, e) ==
    [m EXCEPT !.dm.measuring = TRUE,
              !.dm.lastDistance = e.dist,
              !.dm.ewmaDistance = e.dist,
              !.dm.lastTime = e.now,
              !.dm.ewmaSpeed = Num(0),
              !.dm.speedUpdateEvent = TRUE,
              !.loop.speed = TRUE]

stopSpeedMeasurement(m) ==
    IF m.dm.speedUpdateEvent
    THEN [m EXCEPT !.dm.measuring = FALSE,
                   !.dm.speedUpdateEvent = FALSE,
                   !.loop.speed = FALSE]
    ELSE [m EXCEPT !.dm.measuring = FALSE]

(* the lambda of the 100 ms repeating event *)
speedUpdate(m, e) ==
    IF ~m.dm.measuring THEN m
    ELSE IF e.dist.k # "num" THEN m
    ELSE IF e.depth.k # "num" THEN m
    ELSE
      LET d == m.dm
          dist == IF d.ewmaDistance.k = "num"
                  THEN Num((e.dist.v + 9 * d.ewmaDistance.v) \div 10)
                  ELSE d.ewmaDistance
          dt == e.now - d.lastTime
          instSpeed == IF d.lastDistance.k = "num"
                       THEN IF dt = 0
                            THEN IF e.dist.v = d.lastDistance.v THEN NaN
                                 ELSE IF e.dist.v > d.lastDistance.v THEN Inf
                                 ELSE NegInf
                            ELSE Num(((e.dist.v - d.lastDistance.v) * 10000) \div dt)
                       ELSE IF d.lastDistance.k = "nan" THEN NaN
                       ELSE IF d.lastDistance.k = "inf" THEN NegInf ELSE Inf
          speed == IF instSpeed.k = "num" /\ d.ewmaSpeed.k = "num"
                   THEN Num((3 * instSpeed.v + 7 * d.ewmaSpeed.v) \div 10)
                   ELSE IF instSpeed.k = "nan" \/ d.ewmaSpeed.k = "nan" THEN NaN
                   ELSE IF instSpeed.k = "num" THEN d.ewmaSpeed
                   ELSE IF d.ewmaSpeed.k = "num" THEN instSpeed
                   ELSE IF instSpeed.k = d.ewmaSpeed.k THEN instSpeed ELSE NaN
      IN  [m EXCEPT !.dm.ewmaDistance = dist,
                    !.dm.ewmaSpeed = speed,
                    !.dm.lastDistance = e.dist,
                    !.dm.lastTime = e.now]

getCurrentSpeed(d) ==
    IF d.ewmaSpeed.k = "num" /\ Abs(d.ewmaSpeed.v) < 1 THEN Num(0)
    ELSE d.ewmaSpeed

DeploymentManager_transitionTo(m, newStage) ==
    IF m.dm.currentStage # newStage
    THEN [m EXCEPT !.dm.currentStage = newStage,
                   !.dm._commandIssuedInCurrentDeployStage = FALSE,
                   !.stages = Append(@, newStage)]
    ELSE m

(* event_loop()->remove(deployPulseEvent); deployPulseEvent = nullptr.      *)
(* Removing an event that has already fired removes nothing.                *)
removeDeployPulse(m) ==
    IF m.dm.deployPulseEvent # 0
    THEN [m EXCEPT !.loop.pulses = {p \in @ : p.id # m.dm.deployPulseEvent},
                   !.dm.deployPulseEvent = 0]
    ELSE m

(* deployPulseEvent = event_loop()->onDelay(delay, ...): fresh tells the    *)
(* pulse lambda from the lambda that calls startDeployPulse                 *)
onDelayDeployPulse(m, e, delay, fresh, stageTargetChainLength) ==
    LET used == {p.id : p \in m.loop.pulses}
        id == CHOOSE i \in 1..(Cardinality(used) + 1) :
                 i \notin used /\ \A j \in 1..(i - 1) : j \in used
    IN  [m EXCEPT !.loop.pulses = @ \cup {[id |-> id, due |-> e.now + delay,
                                          fresh |-> fresh,
                                          target |-> stageTargetChainLength]},
                  !.dm.deployPulseEvent = id]

startDeployPulse(m, e, stageTargetChainLength) ==
    onDelayDeployPulse(removeDeployPulse(m), e, 0, TRUE, stageTargetChainLength)

DeploymentManager_stop(m) ==
    IF ~m.dm.isRunning THEN m
    ELSE
      LET m1 == IF m.dm.updateEvent
                THEN [m EXCEPT !.dm.isRunning = FALSE,
                               !.dm.updateEvent = FALSE,
                               !.loop.update = FALSE]
                ELSE [m EXCEPT !.dm.isRunning = FALSE]
          m2 == removeDeployPulse(m1)
          m3 == stopSpeedMeasurement(
                   [m2 EXCEPT !.dm._accumulatedDeployDemand = Num(0)])
      IN  [m3 EXCEPT !.dm.currentStage = "IDLE"]

DeploymentManager_start(m, e) ==
    IF m.dm.isRunning THEN m
    ELSE IF ~isAutoAnchorValid(e.depth) THEN m
    ELSE
      LET currentDepth == e.depth.v
          targetDropDepth == currentDepth + 400
          anchorDepth == targetDropDepth - 200
          totalChainLength == 5 * (targetDropDepth - 200)
          chain30 == (40 * totalChainLength) \div 100
          chain75 == (80 * totalChainLength) \div 100
          estimatedHorizontalForce == estimateHorizontalForce(e.wind)
          reductionFactor30 == computeCatenaryReductionFactor(
                                  chain30, anchorDepth, estimatedHorizontalForce)
          reductionFactor75 == computeCatenaryReductionFactor(
                                  chain75, anchorDepth, estimatedHorizontalForce)
          m1 == [m EXCEPT
                   !.dm.isRunning = TRUE,
                   !.dm.targetDropDepth = targetDropDepth,
                   !.dm.anchorDepth = IF anchorDepth < 0 THEN 0 ELSE anchorDepth,
                   !.dm.totalChainLength = IF totalChainLength < 1000 THEN 1000
                                           ELSE totalChainLength,
                   !.dm.chain30 = chain30,
                   !.dm.chain75 = chain75,
                   !.dm.targetDistanceInit =
                       computeTargetHorizontalDistance(targetDropDepth, anchorDepth),
                   !.dm.targetDistance30 =
                       scaled(computeTargetHorizontalDistance(chain30, anchorDepth),
                              reductionFactor30),
                   !.dm.targetDistance75 =
                       scaled(computeTargetHorizontalDistance(chain75, anchorDepth),
                              reductionFactor75),
                   !.dm.currentStage = "DROP",
                   !.dm.dropInitiated = FALSE,
                   !.dm.currentStageTargetLength = 0,
                   !.stages = <<"DROP">>]
          m2 == startSpeedMeasurement(m1, e)
      IN  [m2 EXCEPT !.dm._accumulatedDeployDemand = Num(0),
                     !.dm.updateEvent = TRUE,
                     !.loop.update = TRUE]

(* a pulse lambda that pays out 1 m more than what remains to the target *)
deployPulseOvershoots(m, e, stageTargetChainLength) ==
    LET d == m.dm
        current_stage_target ==
            IF d.currentStage = "DEPLOY_30" THEN d.chain30
            ELSE IF d.currentStage = "DEPLOY_75" THEN d.chain75
            ELSE d.totalChainLength
    IN  IF ~d.isRunning
           \/ d.currentStage \notin {"DEPLOY_30", "DEPLOY_75", "DEPLOY_100"}
        THEN [m EXCEPT !.dm.deployPulseEvent = 0]
        ELSE IF Abs(stageTargetChainLength - current_stage_target) > 1
        THEN [m EXCEPT !.dm.deployPulseEvent = 0]
        ELSE IF m.cc.state_ # "IDLE"
        THEN onDelayDeployPulse(m, e, DECISION_WINDOW_MS, FALSE,
                                stageTargetChainLength)
        ELSE onDelayDeployPulse(
                lowerAnchor(m, e.now, e.rode,
                            stageTargetChainLength - e.rode + 100,
                            e.depth, e.slack),
                e, DECISION_WINDOW_MS, FALSE, stageTargetChainLength)

(* a pulse lambda that commands and reschedules whatever the sequencer is   *)
(* doing                                                                    *)
deployPulseUnguarded(m, e, stageTargetChainLength) ==
    onDelayDeployPulse(
       lowerAnchor(m, e.now, e.rode, stageTargetChainLength - e.rode,
                   e.depth, e.slack),
       e, DECISION_WINDOW_MS, FALSE, stageTargetChainLength)

(* the lambda startDeployPulse schedules; p is the event that fired *)
deployPulse(m, e, stageTargetChainLength) ==
    LET d == m.dm
        current_stage_target ==
            IF d.currentStage = "DEPLOY_30" THEN d.chain30
            ELSE IF d.currentStage = "DEPLOY_75" THEN d.chain75
            ELSE d.totalChainLength
        current_boat_speed_mps == getCurrentSpeed(d)
        current_chain_length == e.rode
        current_depth == getCurrentDepth(e.depth)
        desired_payout_this_cycle ==
            IF current_boat_speed_mps.k = "num"
            THEN IF current_boat_speed_mps.v <= 100 THEN Num(0)
                 ELSE Num(current_boat_speed_mps.v * 11)
            ELSE IF current_boat_speed_mps.k = "-inf" THEN Num(0)
            ELSE current_boat_speed_mps
        demand == IF d._accumulatedDeployDemand.k = "num"
                     /\ desired_payout_this_cycle.k = "num"
                  THEN Num(d._accumulatedDeployDemand.v + desired_payout_this_cycle.v)
                  ELSE IF d._accumulatedDeployDemand.k = "num"
                  THEN desired_payout_this_cycle
                  ELSE IF desired_payout_this_cycle.k = "num"
                  THEN d._accumulatedDeployDemand
                  ELSE IF d._accumulatedDeployDemand.k = desired_payout_this_cycle.k
                  THEN desired_payout_this_cycle ELSE NaN
        hasEnoughDemand == GreaterEq(demand, Num(100 * MIN_DEPLOY_THRESHOLD_M))
        hasExcessSlack == 2 * e.slack > current_depth
        remaining_to_stage_target == stageTargetChainLength - current_chain_length
        actual_deploy_amount ==
            IF demand.k = "num" /\ demand.v <= 100 * remaining_to_stage_target
            THEN demand.v \div 100
            ELSE remaining_to_stage_target
        windlass == FloatToUnsignedLong(
                       WMulDiv(actual_deploy_amount, m.cc.downSpeed_[1],
                               100 * m.cc.downSpeed_[2]).q, m.ub)
        next_pulse_delay_ms ==
            IF ult(WrapAdd(windlass, 200), DECISION_WINDOW_MS)
            THEN DECISION_WINDOW_MS ELSE WrapAdd(windlass, 200)
    IN  IF ~d.isRunning
           \/ d.currentStage \notin {"DEPLOY_30", "DEPLOY_75", "DEPLOY_100"}
        THEN [m EXCEPT !.dm.deployPulseEvent = 0]
        ELSE IF Abs(stageTargetChainLength - current_stage_target) > 1
        THEN [m EXCEPT !.dm.deployPulseEvent = 0]
        ELSE IF m.cc.state_ # "IDLE"
        THEN onDelayDeployPulse(m, e, DECISION_WINDOW_MS, FALSE,
                                stageTargetChainLength)
        ELSE IF hasEnoughDemand /\ ~hasExcessSlack
        THEN IF actual_deploy_amount >= 1
             THEN onDelayDeployPulse(
                     lowerAnchor([m EXCEPT !.dm._accumulatedDeployDemand = Num(0)],
                                 e.now, e.rode, actual_deploy_amount,
                                 e.depth, e.slack),
                     e, next_pulse_delay_ms, FALSE, stageTargetChainLength)
             ELSE onDelayDeployPulse(
                     [m EXCEPT !.dm._accumulatedDeployDemand = Num(0)],
                     e, DECISION_WINDOW_MS, FALSE, stageTargetChainLength)
        ELSE onDelayDeployPulse(
                [m EXCEPT !.dm._accumulatedDeployDemand = demand],
                e, DECISION_WINDOW_MS, FALSE, stageTargetChainLength)

updateDrop(m, e) ==
    LET currentChainLength == e.rode
        amount_to_lower == m.dm.targetDropDepth - currentChainLength
    IN  IF ~m.dm._commandIssuedInCurrentDeployStage
        THEN IF currentChainLength < m.dm.targetDropDepth /\ amount_to_lower > 1
             THEN [lowerAnchor(m, e.now, e.rode, amount_to_lower, e.depth, e.slack)
                     EXCEPT !.dm.currentStageTargetLength = m.dm.targetDropDepth,
                            !.dm._commandIssuedInCurrentDeployStage = TRUE,
                            !.dm.dropInitiated = TRUE,
                            !.dm.stageStartTime = e.now]
             ELSE [DeploymentManager_transitionTo(m, "WAIT_TIGHT")
                     EXCEPT !.dm.stageStartTime = e.now]
        ELSE IF m.cc.state_ = "IDLE"
                \/ currentChainLength >= m.dm.currentStageTargetLength
             THEN [DeploymentManager_transitionTo(m, "WAIT_TIGHT")
                     EXCEPT !.dm.stageStartTime = e.now]
             ELSE m

(* a WAIT stage that goes on without its hold *)
updateWaitSkipsHold(m, e, targetDistance, next) ==
    IF GreaterEq(m.dm.ewmaDistance, targetDistance)
    THEN [DeploymentManager_transitionTo(m,
              IF next = "HOLD_DROP" THEN "DEPLOY_30"
              ELSE IF next = "HOLD_30" THEN "DEPLOY_75" ELSE "DEPLOY_100")
            EXCEPT !.dm.stageStartTime = e.now]
    ELSE m

updateWait(m, e, targetDistance, next) ==
    IF GreaterEq(m.dm.ewmaDistance, targetDistance)
    THEN [DeploymentManager_transitionTo(m, next)
            EXCEPT !.dm.stageStartTime = e.now]
    ELSE m

(* a hold that is left on the first tick, whatever the time *)
updateHoldNoDwell(m, e, hold, next) ==
    [DeploymentManager_transitionTo(m, next)
       EXCEPT !.dm.currentStageTargetLength = 0]

updateHold(m, e, hold, next) ==
    IF ~ult(e.now - m.dm.stageStartTime, hold)
    THEN [DeploymentManager_transitionTo(m, next)
            EXCEPT !.dm.currentStageTargetLength = 0]
    ELSE m

updateDeploy(m, e, stageTarget, next) ==
    IF e.rode >= stageTarget
    THEN LET m1 == DeploymentManager_transitionTo(removeDeployPulse(m), next)
         IN  IF next = "COMPLETE" THEN DeploymentManager_stop(m1)
             ELSE [m1 EXCEPT !.dm.stageStartTime = e.now]
    ELSE IF m.dm.deployPulseEvent = 0
    THEN startDeployPulse(m, e, stageTarget)
    ELSE m

updateDeployment(m, e) ==
    IF ~m.dm.isRunning THEN m
    ELSE CASE m.dm.currentStage = "IDLE" -> m
           [] m.dm.currentStage = "DROP" -> updateDrop(m, e)
           [] m.dm.currentStage = "WAIT_TIGHT" ->
                 updateWait(m, e, m.dm.targetDistanceInit, "HOLD_DROP")
           [] m.dm.currentStage = "HOLD_DROP" ->
                 updateHold(m, e, 2000, "DEPLOY_30")
           [] m.dm.currentStage = "DEPLOY_30" ->
                 updateDeploy(m, e, m.dm.chain30, "WAIT_30")
           [] m.dm.currentStage = "WAIT_30" ->
                 updateWait(m, e, m.dm.targetDistance30, "HOLD_30")
           [] m.dm.currentStage = "HOLD_30" ->
                 updateHold(m, e, 30000, "DEPLOY_75")
           [] m.dm.currentStage = "DEPLOY_75" ->
                 updateDeploy(m, e, m.dm.chain75, "WAIT_75")
           [] m.dm.currentStage = "WAIT_75" ->
                 updateWait(m, e, m.dm.targetDistance75, "HOLD_75")
           [] m.dm.currentStage = "HOLD_75" ->
                 updateHold(m, e, 75000, "DEPLOY_100")
           [] m.dm.currentStage = "DEPLOY_100" ->
                 updateDeploy(m, e, m.dm.totalChainLength, "COMPLETE")
           [] m.dm.currentStage = "COMPLETE" -> DeploymentManager_stop(m)

----------------------------------------------------------------------------
(* RetrievalManager *)

COOLDOWN_AFTER_RAISE_MS == 3000
COMPLETION_THRESHOLD_M == 200
RetrievalManager_FINAL_PULL_THRESHOLD_M == 1000
MIN_RAISE_AMOUNT_M == 100
RESUME_SLACK_RATIO == <<3, 10>>

RetrievalManager_transitionTo(m, nextState) ==
    [m EXCEPT !.rm.state_ = nextState]

RetrievalManager_start(m, e) ==
    IF m.rm.running_ THEN m
    ELSE [m EXCEPT !.rm.running_ = TRUE,
                   !.rm.completed_ = FALSE,
                   !.rm.state_ = "CHECKING_SLACK",
                   !.rm.lastRaiseTime_ = 0,
                   !.rm.updateEvent_ = TRUE,
                   !.loop.retrieval = TRUE]

(* stop() that invokes the completion callback before it tests running_ *)
RetrievalManager_stopNotifiesFirst(m, e) ==
    IF ~m.rm.running_ THEN [m EXCEPT !.rm.callbacks = @ + 1]
    ELSE
      LET m1 == IF m.rm.updateEvent_
                THEN [m EXCEPT !.rm.running_ = FALSE,
                               !.rm.state_ = "IDLE",
                               !.rm.updateEvent_ = FALSE,
                               !.loop.retrieval = FALSE]
                ELSE [m EXCEPT !.rm.running_ = FALSE, !.rm.state_ = "IDLE"]
          m2 == IF m1.cc.state_ # "IDLE" THEN stop(m1, e.now, e.rode) ELSE m1
      IN  [m2 EXCEPT !.rm.callbacks = @ + 1]

(* stop() without the stop of the actuator *)
RetrievalManager_stopLeavesActuator(m, e) ==
    IF ~m.rm.running_ THEN m
    ELSE
      LET m1 == IF m.rm.updateEvent_
                THEN [m EXCEPT !.rm.running_ = FALSE,
                               !.rm.state_ = "IDLE",
                               !.rm.updateEvent_ = FALSE,
                               !.loop.retrieval = FALSE]
                ELSE [m EXCEPT !.rm.running_ = FALSE, !.rm.state_ = "IDLE"]
      IN  [m1 EXCEPT !.rm.callbacks = @ + 1]

RetrievalManager_stop(m, e) ==
    IF ~m.rm.running_ THEN m
    ELSE
      LET m1 == IF m.rm.updateEvent_
                THEN [m EXCEPT !.rm.running_ = FALSE,
                               !.rm.state_ = "IDLE",
                               !.rm.updateEvent_ = FALSE,
                               !.loop.retrieval = FALSE]
                ELSE [m EXCEPT !.rm.running_ = FALSE, !.rm.state_ = "IDLE"]
          m2 == IF m1.cc.state_ # "IDLE" THEN stop(m1, e.now, e.rode) ELSE m1
      IN  [m2 EXCEPT !.rm.callbacks = @ + 1]

(* WAITING_FOR_SLACK with no cooldown gate on the final-pull zone *)
updateWaitingForSlackUngated(m, e) ==
    LET depth == getCurrentDepth(e.depth)
        cooldownExpired == ~ult(e.now - m.rm.lastRaiseTime_, COOLDOWN_AFTER_RAISE_MS)
    IN  IF e.rode <= COMPLETION_THRESHOLD_M
        THEN RetrievalManager_transitionTo(m, "CHECKING_SLACK")
        ELSE IF e.rode < depth + RetrievalManager_FINAL_PULL_THRESHOLD_M
        THEN RetrievalManager_transitionTo(m, "CHECKING_SLACK")
        ELSE IF RESUME_SLACK_RATIO[2] * e.slack >= RESUME_SLACK_RATIO[1] * depth
                /\ cooldownExpired
        THEN RetrievalManager_transitionTo(m, "CHECKING_SLACK")
        ELSE m

(* case RetrievalState::WAITING_FOR_SLACK of updateRetrieval *)
updateWaitingForSlack(m, e) ==
    LET rodeDeployed == e.rode
        depth == getCurrentDepth(e.depth)
        timeSinceLastRaise == e.now - m.rm.lastRaiseTime_
        cooldownExpired == ~ult(timeSinceLastRaise, COOLDOWN_AFTER_RAISE_MS)
        enoughSlack == RESUME_SLACK_RATIO[2] * e.slack
                          >= RESUME_SLACK_RATIO[1] * depth
    IN  IF rodeDeployed <= COMPLETION_THRESHOLD_M
        THEN RetrievalManager_transitionTo(m, "CHECKING_SLACK")
        ELSE IF rodeDeployed < depth + RetrievalManager_FINAL_PULL_THRESHOLD_M
                /\ cooldownExpired
        THEN RetrievalManager_transitionTo(m, "CHECKING_SLACK")
        ELSE IF enoughSlack /\ cooldownExpired
        THEN RetrievalManager_transitionTo(m, "CHECKING_SLACK")
        ELSE m

(* a tick in CHECKING_SLACK that does not look at the actuator *)
updateRetrievalIgnoresBusy(m, e) ==
    IF m.rm.running_ /\ m.rm.state_ = "CHECKING_SLACK"
       /\ e.rode > COMPLETION_THRESHOLD_M
    THEN RetrievalManager_transitionTo(
            [raiseAnchor(m, e.now, e.rode, e.rode - COMPLETION_THRESHOLD_M,
                         e.depth, e.slack)
               EXCEPT !.rm.lastRaiseTime_ = e.now], "RAISING")
    ELSE m

updateRetrieval(m, e) ==
    IF ~m.rm.running_ THEN m
    ELSE
      LET rodeDeployed == e.rode
          depth == getCurrentDepth(e.depth)
          currentSlack == e.slack
          now == e.now
          timeSinceLastRaise == now - m.rm.lastRaiseTime_
          cooldownExpired == ~ult(timeSinceLastRaise, COOLDOWN_AFTER_RAISE_MS)
          inFinalPull == rodeDeployed < depth + RetrievalManager_FINAL_PULL_THRESHOLD_M
          enoughSlack == RESUME_SLACK_RATIO[2] * currentSlack
                            >= RESUME_SLACK_RATIO[1] * depth
          amountToRaise == rodeDeployed - COMPLETION_THRESHOLD_M
          waiting == RetrievalManager_transitionTo(m, "WAITING_FOR_SLACK")
      IN  CASE m.rm.state_ = "IDLE" -> m
            [] m.rm.state_ = "CHECKING_SLACK" ->
                 IF rodeDeployed <= COMPLETION_THRESHOLD_M
                 THEN RetrievalManager_stop(
                        [RetrievalManager_transitionTo(m, "COMPLETE")
                           EXCEPT !.rm.completed_ = TRUE], e)
                 ELSE IF m.cc.state_ # "IDLE" THEN m
                 ELSE IF inFinalPull
                 THEN IF ~cooldownExpired THEN waiting
                      ELSE IF amountToRaise > 10
                      THEN RetrievalManager_transitionTo(
                             [raiseAnchor(m, now, e.rode, amountToRaise,
                                          e.depth, e.slack)
                                EXCEPT !.rm.lastRaiseTime_ = now], "RAISING")
                      ELSE m
                 ELSE IF ~cooldownExpired THEN waiting
                 ELSE IF enoughSlack /\ currentSlack >= MIN_RAISE_AMOUNT_M
                 THEN RetrievalManager_transitionTo(
                        [raiseAnchor(m, now, e.rode, currentSlack,
                                     e.depth, e.slack)
                           EXCEPT !.rm.lastRaiseTime_ = now], "RAISING")
                 ELSE waiting
            [] m.rm.state_ = "RAISING" ->
                 IF ~inFinalPull /\ currentSlack < PAUSE_SLACK_M
                    /\ m.cc.state_ # "IDLE"
                 THEN RetrievalManager_transitionTo(
                        [stop(m, now, e.rode) EXCEPT !.rm.lastRaiseTime_ = now],
                        "WAITING_FOR_SLACK")
                 ELSE IF m.cc.state_ = "IDLE" THEN waiting
                 ELSE m
            [] m.rm.state_ = "WAITING_FOR_SLACK" -> updateWaitingForSlack(m, e)
            [] m.rm.state_ = "COMPLETE" -> m

----------------------------------------------------------------------------
(* ChainController: the catenary geometry.  Its estimateHorizontalForce and *)
(* computeCatenaryReductionFactor are, statement for statement, those of    *)
(* DeploymentManager above.                                                 *)

getTideHeightNow(raw) ==
    IF raw.k # "num" THEN 0 ELSE raw.v

getTideHeightHigh(raw) ==
    IF raw.k # "num" THEN 0 ELSE raw.v

getCurrentDistance(raw) ==
    IF raw.k # "num" \/ raw.v <= 1 THEN 0 ELSE raw.v

(* chainLength and depth are float readings, lengths in centimetres *)
ChainController_computeTargetHorizontalDistance(chainLength, depth, windReading) ==
    IF chainLength.k # "num" \/ depth.k # "num" THEN Num(0)
    ELSE
      LET arg == (chainLength.v * chainLength.v) - (depth.v * depth.v)
          horizontalForce == estimateHorizontalForce(windReading)
          reductionFactor == computeCatenaryReductionFactor(
                                chainLength.v, depth.v, horizontalForce)
      IN  IF arg < 0 THEN Num(0)
          ELSE scaled(sqrt(arg), reductionFactor)

(* a slack that is the vertical excess only: no check that the anchor has   *)
(* reached the bottom, no account of the distance                           *)
horizontalSlackVertical(current_chain, depthReading, distReading, windReading) ==
    IF current_chain <= 1 \/ getCurrentDepth(depthReading) <= 1 THEN 0
    ELSE current_chain - (BOW_HEIGHT_M + getCurrentDepth(depthReading))

(* the slack calculateAndPublishHorizontalSlack computes, before it decides *)
(* whether to publish it                                                    *)
horizontalSlack(current_chain, depthReading, distReading, windReading) ==
    LET current_depth == getCurrentDepth(depthReading)
        current_distance == getCurrentDistance(distReading)
        total_depth_from_bow == BOW_HEIGHT_M + current_depth
        horizontalForce == estimateHorizontalForce(windReading)
        straightLineChainForDistance ==
            sqrt((current_distance * current_distance)
                   + (total_depth_from_bow * total_depth_from_bow))
        reductionFactor == computeCatenaryReductionFactor(
                              straightLineChainForDistance.v,
                              total_depth_from_bow, horizontalForce)
        adjustedDistance == (current_distance * 1000)
                               \div (IF reductionFactor < 10 THEN 10
                                     ELSE reductionFactor)
        minimum_chain_needed ==
            IF current_distance <= 1 THEN total_depth_from_bow
            ELSE sqrt((adjustedDistance * adjustedDistance)
                        + (total_depth_from_bow * total_depth_from_bow)).v
    IN  IF current_chain <= 1 \/ current_depth <= 1 THEN 0
        ELSE IF current_chain < current_depth + BOW_HEIGHT_M THEN 0
        ELSE current_chain - minimum_chain_needed

----------------------------------------------------------------------------
(* The state after setup() *)

InitCC(speeds) ==
          [min_length_ |-> Config.min_length,
           max_length_ |-> Config.max_length,
           stop_before_max_ |-> Config.stop_before_max,
           target_ |-> 0,
           state_ |-> "IDLE",
           movement_start_time_ |-> 0,
           start_position_ |-> 0,
           move_timeout_ |-> 10000,
           upSpeed_ |-> speeds[1],
           downSpeed_ |-> speeds[2],
           paused_for_slack_ |-> FALSE,
           last_slack_action_time_ |-> 0]

InitDM ==
    [currentStage |-> "IDLE", isRunning |-> FALSE, dropInitiated |-> FALSE,
     targetDropDepth |-> 0, totalChainLength |-> 0, stageStartTime |-> 0,
     ewmaSpeed |-> Num(0), lastTime |-> 0, lastDistance |-> Num(0),
     measuring |-> FALSE, ewmaDistance |-> Num(0),
     _accumulatedDeployDemand |-> Num(0),
     anchorDepth |-> 0, targetDistanceInit |-> Num(0),
     targetDistance30 |-> Num(0), targetDistance75 |-> Num(0),
     chain30 |-> 0, chain75 |-> 0,
     _commandIssuedInCurrentDeployStage |-> FALSE,
     currentStageTargetLength |-> 0,
     updateEvent |-> FALSE, speedUpdateEvent |-> FALSE, deployPulseEvent |-> 0]

(* callbacks counts the invocations of completionCallback_, which is set *)
InitRM ==
    [state_ |-> "IDLE", running_ |-> FALSE, completed_ |-> FALSE,
     lastRaiseTime_ |-> 0, updateEvent_ |-> FALSE, callbacks |-> 0]

(* no sequencer has been started: the event loop holds none of their timers *)
InitSequencers ==
    /\ dm = InitDM
    /\ rm = InitRM
    /\ loop = [update |-> FALSE, speed |-> FALSE, pulses |-> {},
               retrieval |-> FALSE]
    /\ stages = <<>>
    /\ starts = 0
    /\ geo = <<Num(0), Num(0), Num(0)>>
    /\ tides = [now |-> Num(0), high |-> Num(0)]
    /\ lastSwitch = [some |-> FALSE, at |-> 0]

Init ==
    /\ clock = -100
    /\ rode \in RodeStarts
    /\ depthRaw \in DepthReadings
    /\ slack = 0
    /\ \E speeds \in SpeedStarts :
          /\ cc = InitCC(speeds)
          /\ prefs = [upSpeed |-> speeds[1], downSpeed |-> speeds[2]]
    /\ pins = [up |-> FALSE, down |-> FALSE]
    /\ relayLog = <<>>
    /\ op = [name |-> "setup", arg |-> 0, was |-> "IDLE", wasPaused |-> FALSE,
             expired |-> FALSE, same |-> TRUE]
    /\ moveStart = 0
    /\ cals = 0
    /\ beat = FALSE
    /\ distRaw = Num(0)
    /\ windRaw = NaN
    /\ InitSequencers

----------------------------------------------------------------------------
(* Handlers *)

Enter == [cc |-> cc, pins |-> pins, prefs |-> prefs, log |-> <<>>, ub |-> 0,
          dm |-> dm, rm |-> rm, loop |-> loop, stages |-> stages,
          geo |-> geo, tides |-> tides]

Return(name, arg, returned) == \E m \in {returned} :
    /\ cc' = m.cc
    /\ pins' = m.pins
    /\ prefs' = m.prefs
    /\ relayLog' = m.log
    /\ op' = [name |-> name, arg |-> arg, was |-> cc.state_,
              wasPaused |-> cc.paused_for_slack_,
              expired |-> /\ name = "control"
                          /\ cc.state_ # "IDLE"
                          /\ ult(cc.move_timeout_, clock - moveStart),
              same |-> m.cc = cc /\ m.pins = pins /\ m.prefs = prefs
                       /\ m.log = <<>>]
    /\ cals' = IF m.cc.upSpeed_ # cc.upSpeed_ \/ m.cc.downSpeed_ # cc.downSpeed_
               THEN cals + 1 ELSE cals
    /\ moveStart' = IF m.cc.state_ = "IDLE" THEN 0
                    ELSE IF m.cc.movement_start_time_ = clock THEN clock
                    ELSE moveStart
    /\ dm' = m.dm
    /\ rm' = m.rm
    /\ loop' = m.loop
    /\ stages' = m.stages
    /\ geo' = m.geo
    /\ tides' = m.tides
    /\ lastSwitch' =
         LET switched == [some |-> TRUE, at |-> m.cc.last_slack_action_time_]
             none == [some |-> FALSE, at |-> 0]
         IN  IF m.cc.state_ # "RAISING" THEN none
             ELSE IF \/ name = "raiseAnchor"
                     \/ cc.state_ # "RAISING"
                     \/ m.cc.movement_start_time_ # cc.movement_start_time_
             THEN IF m.cc.paused_for_slack_ THEN switched ELSE none
             ELSE IF m.cc.paused_for_slack_ # cc.paused_for_slack_
             THEN switched
             ELSE lastSwitch
    /\ starts' = IF name \in {"DeploymentManager::start", "RetrievalManager::start"}
                 THEN starts + 1 ELSE starts

InWindow(r) ==
    \E r0 \in RodeStarts \cup {0} : Abs(r - r0) <= RodeWindow * Config.gypsy_circum

(* Time passes: to a later instant of the grid, or past the deadline of the *)
(* move in progress.                                                        *)
Deadline == IF cc.state_ # "IDLE"
            THEN {moveStart + cc.move_timeout_, moveStart + cc.move_timeout_ + 1}
            ELSE {}

(* Behaviours are followed until the last move has ended *)
Live == cc.state_ # "IDLE" \/ cals < MaxCals

Tick ==
    /\ Live
    /\ \E t \in ClockGrid \cup Deadline : t > clock /\ clock' = t
    /\ Return("env", 0, Enter)
    /\ UNCHANGED <<rode, depthRaw, slack, beat, distRaw, windRaw>>

(* lowerAnchor(amount) is called: by the command handler, by a sequencer.   *)
(* No amount of Amounts makes the conversion in updateTimeout undefined.    *)
LowerAnchorCmd(amount, ub) ==
    /\ cals < MaxCals
    /\ clock \in ClockGrid
    /\ Return("lowerAnchor", amount,
              lowerAnchor([Enter EXCEPT !.ub = ub], clock, rode, amount,
                          depthRaw, slack))
    /\ UNCHANGED <<clock, rode, depthRaw, slack, beat, distRaw, windRaw>>

(* raiseAnchor(amount) is called *)
RaiseAnchorCmd(amount, ub) ==
    /\ cals < MaxCals
    /\ clock \in ClockGrid
    /\ Return("raiseAnchor", amount,
              raiseAnchor([Enter EXCEPT !.ub = ub], clock, rode, amount,
                          depthRaw, slack))
    /\ UNCHANGED <<clock, rode, depthRaw, slack, beat, distRaw, windRaw>>

StopCmd ==
    /\ Return("stop", 0, stop(Enter, clock, rode))
    /\ UNCHANGED <<clock, rode, depthRaw, slack, beat, distRaw, windRaw>>

(* counter_handler: one pulse of the gypsy sensor moves the accumulator, and *)
(* the accumulator's feedback consumer calls control() with the new value.   *)
CounterPulse(dir) ==
    LET circum == Config.gypsy_circum
        next == IF dir = "up" THEN rode - circum ELSE rode + circum
    IN  /\ Live
        /\ IF dir = "up" THEN next >= 0 ELSE next <= Config.max_length
        /\ InWindow(next)
        /\ rode' = next
        /\ Return("control", next, control(Enter, clock, next, depthRaw, slack))
        /\ UNCHANGED <<clock, depthRaw, slack, beat, distRaw, windRaw>>

(* sk_timer: accumulator->notify() re-emits the value to control() *)
Notify ==
    /\ Live
    /\ Return("control", rode, control(Enter, clock, rode, depthRaw, slack))
    /\ UNCHANGED <<clock, rode, depthRaw, slack, beat, distRaw, windRaw>>

(* The same firing, counted: the timer repeats for as long as the program   *)
(* runs, whatever the actuator does.                                        *)
Heartbeat ==
    /\ Live
    /\ Return("control", rode, control(Enter, clock, rode, depthRaw, slack))
    /\ beat' = ~beat
    /\ UNCHANGED <<clock, rode, depthRaw, slack, distRaw, windRaw>>

(* the depth listener receives a reading *)
DepthUpdate(r) ==
    /\ Live
    /\ r # depthRaw
    /\ depthRaw' = r
    /\ Return("env", 0, Enter)
    /\ UNCHANGED <<clock, rode, slack, beat, distRaw, windRaw>>

(* slack_update_timer: calculateAndPublishHorizontalSlack.  The chain needed *)
(* for the measured distance is at least depth + bow height; s stands for the *)
(* slack that distance gives.                                                 *)
PublishSlack(s) ==
    LET current_depth == getCurrentDepth(depthRaw)
        calculated_slack ==
            IF rode <= 1 \/ current_depth <= 1 THEN 0
            ELSE IF rode < current_depth + BOW_HEIGHT_M THEN 0
            ELSE s
    IN  /\ Live
        /\ s <= rode - (current_depth + BOW_HEIGHT_M)
        /\ Abs(slack - calculated_slack) > 1
        /\ slack' = calculated_slack
        /\ Return("env", 0, Enter)
        /\ UNCHANGED <<clock, rode, depthRaw, beat, distRaw, windRaw>>

Next ==
    \/ Tick
    \/ \E a \in Amounts : LowerAnchorCmd(a, 0)
    \/ \E a \in Amounts : RaiseAnchorCmd(a, 0)
    \/ StopCmd
    \/ \E dir \in {"up", "down"} : CounterPulse(dir)
    \/ Notify
    \/ \E r \in DepthReadings : DepthUpdate(r)
    \/ \E s \in SlackReadings : PublishSlack(s)

Spec == Init /\ [][Next]_vars

(* The clock advances and the notify timer keeps firing; commands and      *)
(* counter pulses come or not.  The sensor readings stay what they were at *)
(* the start: the slack never recovers.                                    *)
FairNext ==
    \/ Tick
    \/ \E a \in Amounts : LowerAnchorCmd(a, 0)
    \/ \E a \in Amounts : RaiseAnchorCmd(a, 0)
    \/ StopCmd
    \/ \E dir \in {"up", "down"} : CounterPulse(dir)
    \/ Heartbeat

FairSpec == Init /\ [][FairNext]_vars /\ WF_vars(Tick) /\ WF_vars(Heartbeat)

(* Commands at any instant of the grid and any rode length, no time passing *)
CmdInit ==
    /\ clock \in ClockGrid
    /\ rode \in CmdRodes
    /\ depthRaw \in DepthReadings
    /\ slack = 0
    /\ \E speeds \in SpeedStarts :
          /\ cc = InitCC(speeds)
          /\ prefs = [upSpeed |-> speeds[1], downSpeed |-> speeds[2]]
    /\ pins = [up |-> FALSE, down |-> FALSE]
    /\ relayLog = <<>>
    /\ op = [name |-> "setup", arg |-> 0, was |-> "IDLE", wasPaused |-> FALSE,
             expired |-> FALSE, same |-> TRUE]
    /\ moveStart = 0
    /\ cals = 0
    /\ beat = FALSE
    /\ distRaw = Num(0)
    /\ windRaw = NaN
    /\ InitSequencers

CmdNext ==
    \/ \E a \in CmdAmounts : \E ub \in UBCast : LowerAnchorCmd(a, ub)
    \/ \E a \in CmdAmounts : \E ub \in UBCast : RaiseAnchorCmd(a, ub)
    \/ StopCmd

CmdSpec == CmdInit /\ [][CmdNext]_vars

----------------------------------------------------------------------------
(* The sequencers at work *)

MaxClock == 200000     \* time is followed up to this instant
MaxStarts == 2         \* start() calls on the sequencers
DistReadings == {Num(0), Num(20000)}

(* what a handler reads from its environment *)
Env == [now |-> clock, rode |-> rode, depth |-> depthRaw, dist |-> distRaw,
        wind |-> windRaw, slack |-> slack]

(* A pulse event matters when its lambda, run when it is due with what the  *)
(* program knows now, does more than schedule the next one.                 *)
Matters(p) ==
    LET r == deployPulse([Enter EXCEPT !.loop.pulses = @ \ {p}],
                         [Env EXCEPT !.now = p.due], p.target)
    IN  \/ r.cc # cc
        \/ r.dm._accumulatedDeployDemand # dm._accumulatedDeployDemand
        \/ r.dm.deployPulseEvent = 0

(* The instants at which something becomes due: a deploy pulse that         *)
(* matters, the sample of a new distance reading, the end of a hold, the    *)
(* timeout of a move, the end of the retrieval cooldown and of the          *)
(* actuator's own slack cooldown.                                          *)
Due ==
    {p.due : p \in {q \in loop.pulses : Matters(q)}}
      \cup (IF loop.speed /\ distRaw # dm.lastDistance THEN {dm.lastTime + 100}
            ELSE {})
      \cup (IF dm.currentStage = "HOLD_DROP" THEN {dm.stageStartTime + 2000}
            ELSE IF dm.currentStage = "HOLD_30" THEN {dm.stageStartTime + 30000}
            ELSE IF dm.currentStage = "HOLD_75" THEN {dm.stageStartTime + 75000}
            ELSE {})
      \cup (IF cc.state_ # "IDLE" THEN {moveStart + cc.move_timeout_ + 1} ELSE {})
      \cup (IF rm.running_ THEN {rm.lastRaiseTime_ + COOLDOWN_AFTER_RAISE_MS}
            ELSE {})
      \cup (IF cc.state_ = "RAISING" /\ cc.last_slack_action_time_ # 0
            THEN {cc.last_slack_action_time_ + SLACK_COOLDOWN_MS} ELSE {})

(* The repeating update events have periods of 1 ms and 100 ms and a due    *)
(* one-shot event fires at the next turn of the loop: when time passes on   *)
(* to a later instant, no pulse is due and the updates have nothing left to *)
(* do at this one.                                                          *)
Settled ==
    /\ \A p \in loop.pulses : p.due > clock
    /\ loop.update =>
          LET r == updateDeployment(Enter, Env)
          IN  r.dm = dm /\ r.cc = cc /\ r.loop = loop
    /\ loop.retrieval =>
          LET r == updateRetrieval(Enter, Env)
          IN  r.rm = rm /\ r.cc = cc /\ r.loop = loop

(* ms between two pulses of the gypsy sensor at the default speed *)
PulsePeriod == (DefaultSpeed[1] * Config.gypsy_circum) \div (100 * DefaultSpeed[2])

(* The windlass runs at the speed the program starts from: while a relay is *)
(* energized, the gypsy sensor gives one pulse every PulsePeriod ms of the  *)
(* move in progress.                                                        *)
turnDue ==
    moveStart
      + ((Abs(rode - cc.start_position_) \div Config.gypsy_circum) + 1) * PulsePeriod

(* Time passes to the next such instant, or to the next pulse of the gypsy  *)
(* sensor if that comes first.  Once MaxCals calibrations have changed a    *)
(* speed, time no longer passes during a move.                              *)
Advance ==
    /\ Settled
    /\ cc.state_ = "IDLE" \/ cals < MaxCals
    /\ \E t \in Due :
          /\ t > clock
          /\ t <= MaxClock
          /\ \A u \in Due : u > clock => t <= u
          /\ pins.up # pins.down => t <= turnDue
          /\ clock' = t
    /\ Return("env", 0, Enter)
    /\ UNCHANGED <<rode, depthRaw, slack, beat, distRaw, windRaw>>

(* The calls followed are those that change the state of the program: a    *)
(* start() of a running sequencer, a stop() of a stopped one, an update     *)
(* with nothing to do return as they came.                                  *)
Acts(r) ==
    \/ r.cc # cc
    \/ r.pins # pins
    \/ r.prefs # prefs
    \/ r.dm # dm
    \/ r.rm # rm
    \/ r.loop # loop
    \/ r.stages # stages

(* the command handler calls deploymentManager->start() *)
DeployStart ==
    /\ starts < MaxStarts
    /\ Acts(DeploymentManager_start(Enter, Env))
    /\ Return("DeploymentManager::start", 0, DeploymentManager_start(Enter, Env))
    /\ UNCHANGED <<clock, rode, depthRaw, slack, beat, distRaw, windRaw>>

(* the command handler calls deploymentManager->stop() *)
DeployStop ==
    /\ Acts(DeploymentManager_stop(Enter))
    /\ Return("DeploymentManager::stop", 0, DeploymentManager_stop(Enter))
    /\ UNCHANGED <<clock, rode, depthRaw, slack, beat, distRaw, windRaw>>

(* updateEvent fires *)
DeployUpdate ==
    /\ loop.update
    /\ Acts(updateDeployment(Enter, Env))
    /\ Return("updateDeployment", 0, updateDeployment(Enter, Env))
    /\ UNCHANGED <<clock, rode, depthRaw, slack, beat, distRaw, windRaw>>

(* speedUpdateEvent fires, its period after the previous sample at the      *)
(* earliest.  The firings followed are those that find a new reading.       *)
SpeedUpdate ==
    /\ loop.speed
    /\ clock - dm.lastTime >= 100
    /\ distRaw # dm.lastDistance
    /\ Return("speedUpdate", 0, speedUpdate(Enter, Env))
    /\ UNCHANGED <<clock, rode, depthRaw, slack, beat, distRaw, windRaw>>

(* a one-shot event scheduled by onDelay fires and leaves the loop *)
DeployPulse ==
    \E p \in loop.pulses :
      /\ p.due <= clock
      /\ LET m == [Enter EXCEPT !.loop.pulses = @ \ {p}]
         IN  Return("deployPulse", p.target,
                    IF p.fresh THEN deployPulse(m, Env, p.target)
                    ELSE startDeployPulse(m, Env, p.target))
      /\ UNCHANGED <<clock, rode, depthRaw, slack, beat, distRaw, windRaw>>

RetrieveStart ==
    /\ starts < MaxStarts
    /\ Acts(RetrievalManager_start(Enter, Env))
    /\ Return("RetrievalManager::start", 0, RetrievalManager_start(Enter, Env))
    /\ UNCHANGED <<clock, rode, depthRaw, slack, beat, distRaw, windRaw>>

(* retrievalManager->stop(), whatever it finds *)
RetrieveStop ==
    /\ Return("RetrievalManager::stop", 0, RetrievalManager_stop(Enter, Env))
    /\ UNCHANGED <<clock, rode, depthRaw, slack, beat, distRaw, windRaw>>

(* updateEvent_ fires *)
RetrieveUpdate ==
    /\ loop.retrieval
    /\ Acts(updateRetrieval(Enter, Env))
    /\ Return("updateRetrieval", 0, updateRetrieval(Enter, Env))
    /\ UNCHANGED <<clock, rode, depthRaw, slack, beat, distRaw, windRaw>>

(* counter_handler while the windlass runs: the gypsy turns the way the     *)
(* energized relay drives it, and the accumulator's consumer calls control() *)
WindlassTurns ==
    LET circum == Config.gypsy_circum
        next == IF pins.up THEN rode - circum ELSE rode + circum
        t == IF turnDue > clock THEN turnDue ELSE clock
    IN  /\ pins.up # pins.down
        /\ cals < MaxCals
        /\ Settled
        /\ \A u \in Due : u > clock => t <= u
        /\ t <= MaxClock
        /\ next >= 0
        /\ next <= Config.max_length
        /\ clock' = t
        /\ rode' = next
        /\ Return("control", next, control(Enter, t, next, depthRaw, slack))
        /\ UNCHANGED <<depthRaw, slack, beat, distRaw, windRaw>>

(* sk_timer while a move is in progress *)
Watchdog ==
    /\ cc.state_ # "IDLE"
    /\ Acts(control(Enter, clock, rode, depthRaw, slack))
    /\ Return("control", rode, control(Enter, clock, rode, depthRaw, slack))
    /\ UNCHANGED <<clock, rode, depthRaw, slack, beat, distRaw, windRaw>>

(* the distance listener receives a reading: the boat drifts back *)
DistanceUpdate(r) ==
    /\ r.v > distRaw.v
    /\ distRaw' = r
    /\ Return("env", 0, Enter)
    /\ UNCHANGED <<clock, rode, depthRaw, slack, beat, windRaw>>

AutoInit ==
    /\ clock = 1000
    /\ rode = 0
    /\ depthRaw = Num(300)
    /\ slack = 0
    /\ cc = InitCC(<<DefaultSpeed, DefaultSpeed>>)
    /\ prefs = [upSpeed |-> DefaultSpeed, downSpeed |-> DefaultSpeed]
    /\ pins = [up |-> FALSE, down |-> FALSE]
    /\ relayLog = <<>>
    /\ op = [name |-> "setup", arg |-> 0, was |-> "IDLE", wasPaused |-> FALSE,
             expired |-> FALSE, same |-> TRUE]
    /\ moveStart = 0
    /\ cals = 0
    /\ beat = FALSE
    /\ distRaw = Num(0)
    /\ windRaw = NaN
    /\ InitSequencers

(* Both sequencers, started in any order at any instant and left to run *)
AutoNext ==
    \/ Advance
    \/ DeployStart
    \/ DeployUpdate
    \/ SpeedUpdate
    \/ DeployPulse
    \/ RetrieveStart
    \/ RetrieveUpdate
    \/ WindlassTurns
    \/ Watchdog
    \/ \E r \in DistReadings : DistanceUpdate(r)

AutoSpec == AutoInit /\ [][AutoNext]_vars

(* The deployment sequencer alone.  The windlass reaches every target of a   *)
(* deployment before the timeout of the move: the watchdog finds nothing to *)
(* do.                                                                      *)
DeployNext ==
    \/ Advance
    \/ DeployStart
    \/ DeployStop
    \/ DeployUpdate
    \/ SpeedUpdate
    \/ DeployPulse
    \/ WindlassTurns
    \/ \E r \in DistReadings : DistanceUpdate(r)

DeploySpec == AutoInit /\ [][DeployNext]_vars

----------------------------------------------------------------------------
(* Repeated moves of one pulse of the gypsy, each completed after one of a  *)
(* few elapsed times                                                        *)

MaxRepeats == 3        \* completed moves in one behaviour
CalElapsed == {100, 800, 2000}

CalInit ==
    /\ clock = 100
    /\ rode = 1000
    /\ depthRaw = Num(300)
    /\ slack = 100
    /\ \E speeds \in SpeedStarts :
          /\ cc = InitCC(speeds)
          /\ prefs = [upSpeed |-> speeds[1], downSpeed |-> speeds[2]]
    /\ pins = [up |-> FALSE, down |-> FALSE]
    /\ relayLog = <<>>
    /\ op = [name |-> "setup", arg |-> 0, was |-> "IDLE", wasPaused |-> FALSE,
             expired |-> FALSE, same |-> TRUE]
    /\ moveStart = 0
    /\ cals = 0
    /\ beat = FALSE
    /\ distRaw = Num(0)
    /\ windRaw = NaN
    /\ InitSequencers

(* a command for one pulse's length of rode, the actuator at rest *)
CalStart(dir) ==
    /\ cc.state_ = "IDLE"
    /\ cals < MaxRepeats
    /\ IF dir = "down"
       THEN Return("lowerAnchor", Config.gypsy_circum,
                   lowerAnchor(Enter, clock, rode, Config.gypsy_circum,
                               depthRaw, slack))
       ELSE Return("raiseAnchor", Config.gypsy_circum,
                   raiseAnchor(Enter, clock, rode, Config.gypsy_circum,
                               depthRaw, slack))
    /\ UNCHANGED <<clock, rode, depthRaw, slack, beat, distRaw, windRaw>>

(* counter_handler: the pulse arrives, elapsed ms after the command *)
CalTurn(elapsed) ==
    LET next == IF pins.up THEN rode - Config.gypsy_circum
                ELSE rode + Config.gypsy_circum
    IN  /\ cc.state_ # "IDLE"
        /\ pins.up # pins.down
        /\ clock' = clock + elapsed
        /\ rode' = next
        /\ Return("control", next,
                  control(Enter, clock + elapsed, next, depthRaw, slack))
        /\ UNCHANGED <<depthRaw, slack, beat, distRaw, windRaw>>

CalNext ==
    \/ \E dir \in {"up", "down"} : CalStart(dir)
    \/ \E elapsed \in CalElapsed : CalTurn(elapsed)

CalSpec == CalInit /\ [][CalNext]_vars

----------------------------------------------------------------------------
(* start() under any depth reading, stop() and the first ticks of both      *)
(* sequencers, with manual commands; no time passes                         *)

StartDepths == {NaN, Inf, NegInf, Num(299), Num(300), Num(4500), Num(4501)}

StartInit ==
    /\ clock = 100
    /\ rode = 0
    /\ depthRaw \in StartDepths
    /\ slack = 0
    /\ cc = InitCC(<<DefaultSpeed, DefaultSpeed>>)
    /\ prefs = [upSpeed |-> DefaultSpeed, downSpeed |-> DefaultSpeed]
    /\ pins = [up |-> FALSE, down |-> FALSE]
    /\ relayLog = <<>>
    /\ op = [name |-> "setup", arg |-> 0, was |-> "IDLE", wasPaused |-> FALSE,
             expired |-> FALSE, same |-> TRUE]
    /\ moveStart = 0
    /\ cals = 0
    /\ beat = FALSE
    /\ distRaw = Num(0)
    /\ windRaw = NaN
    /\ InitSequencers

(* The command "autoDrop" with a numeric suffix, 0 standing for none: the    *)
(* scope ratio the handler passes to start().                               *)
ScopeSuffixes == {0, 2, 5, 7, 12}
autoDropScopeRatio(suffix) == IF suffix > 0 THEN suffix ELSE 5

(* deploymentManager->start(scopeRatio), whatever it finds; start() as      *)
(* DeploymentManager.cpp defines it takes no argument.                      *)
StartCalled ==
    /\ starts < MaxStarts
    /\ \E suffix \in ScopeSuffixes :
          Return("DeploymentManager::start", autoDropScopeRatio(suffix),
                 DeploymentManager_start(Enter, Env))
    /\ UNCHANGED <<clock, rode, depthRaw, slack, beat, distRaw, windRaw>>

(* the depth listener receives a reading *)
DepthChanges(r) ==
    /\ r # depthRaw
    /\ depthRaw' = r
    /\ Return("env", 0, Enter)
    /\ UNCHANGED <<clock, rode, slack, beat, distRaw, windRaw>>

StartNext ==
    \/ StartCalled
    \/ \E r \in StartDepths : DepthChanges(r)
    \/ DeployUpdate
    \/ DeployStop
    \/ RetrieveStart
    \/ RetrieveUpdate
    \/ RetrieveStop
    \/ \E a \in Amounts : LowerAnchorCmd(a, 0)
    \/ \E a \in Amounts : RaiseAnchorCmd(a, 0)
    \/ StopCmd

StartSpec == StartInit /\ [][StartNext]_vars

----------------------------------------------------------------------------
(* The retrieval sequencer alone, the rode deployed, under slack readings   *)
(* that come and go                                                         *)

MaxRetrieveClock == 12000  \* the retrieval is followed up to this instant
RetrieveRodes == {200, 205, 300, 1200, 2500}
RetrieveSlacks == {-50, 10, 200}

RetrieveInit ==
    /\ clock = 1000
    /\ rode \in RetrieveRodes
    /\ depthRaw = Num(300)
    /\ slack \in RetrieveSlacks
    /\ cc = InitCC(<<DefaultSpeed, DefaultSpeed>>)
    /\ prefs = [upSpeed |-> DefaultSpeed, downSpeed |-> DefaultSpeed]
    /\ pins = [up |-> FALSE, down |-> FALSE]
    /\ relayLog = <<>>
    /\ op = [name |-> "setup", arg |-> 0, was |-> "IDLE", wasPaused |-> FALSE,
             expired |-> FALSE, same |-> TRUE]
    /\ moveStart = 0
    /\ cals = 0
    /\ beat = FALSE
    /\ distRaw = Num(0)
    /\ windRaw = NaN
    /\ InitSequencers

(* slack_update_timer publishes a new value of the horizontal slack *)
SlackChanges(s) ==
    /\ s # slack
    /\ slack' = s
    /\ Return("env", 0, Enter)
    /\ UNCHANGED <<clock, rode, depthRaw, beat, distRaw, windRaw>>

RetrieveNext ==
    \/ Advance /\ clock' <= MaxRetrieveClock
    \/ RetrieveStart
    \/ RetrieveUpdate
    \/ WindlassTurns /\ clock' <= MaxRetrieveClock
    \/ Watchdog
    \/ \E s \in RetrieveSlacks : SlackChanges(s)

RetrieveSpec == RetrieveInit /\ [][RetrieveNext]_vars

(* The deployment sequencer while the published slack changes: at a depth   *)
(* of 3 m, 0.5, 0.6 and 1.2 times the depth are 1.5 m, 1.8 m and 3.6 m      *)
PayoutSlacks == {10, 160, 400}

MaxPayoutClock == 13000    \* the pay-out is followed up to this instant

(* Nothing reads the published slack before the first deploy stage: its     *)
(* changes are followed from there on.                                      *)
PayoutNext ==
    \/ Advance /\ clock' <= MaxPayoutClock
    \/ DeployStart
    \/ DeployUpdate
    \/ SpeedUpdate
    \/ DeployPulse
    \/ WindlassTurns /\ clock' <= MaxPayoutClock
    \/ \E r \in DistReadings : DistanceUpdate(r)
    \/ \E s \in PayoutSlacks :
          /\ dm.currentStage \in {"DEPLOY_30", "DEPLOY_75", "DEPLOY_100"}
          /\ SlackChanges(s)

PayoutSpec == AutoInit /\ [][PayoutNext]_vars

----------------------------------------------------------------------------
(* The geometry under any readings: the slack timer fires and the target    *)
(* distance is asked for, while the readings change                         *)

GeoChains == {1, 400, 1000}
GeoDepths == {NaN, Num(1), Num(300), Num(301)}
GeoDists == {NaN, Num(1), Num(500)}
GeoWinds == {NaN, Num(1000)}
GeoArgs == {NaN, Inf, Num(-500), Num(-300), Num(300), Num(500)}

GeoInit ==
    /\ clock = 1000
    /\ rode \in GeoChains
    /\ depthRaw \in GeoDepths
    /\ slack = 0
    /\ cc = InitCC(<<DefaultSpeed, DefaultSpeed>>)
    /\ prefs = [upSpeed |-> DefaultSpeed, downSpeed |-> DefaultSpeed]
    /\ pins = [up |-> FALSE, down |-> FALSE]
    /\ relayLog = <<>>
    /\ op = [name |-> "setup", arg |-> 0, was |-> "IDLE", wasPaused |-> FALSE,
             expired |-> FALSE, same |-> TRUE]
    /\ moveStart = 0
    /\ cals = 0
    /\ beat = FALSE
    /\ distRaw \in GeoDists
    /\ windRaw \in GeoWinds
    /\ InitSequencers

(* a publication of every computed value, changed or not *)
publishAlways(published, calculated) == calculated

(* the observable after the computed slack has been offered to it: set only *)
(* on a change of more than 1 cm                                            *)
publish(published, calculated) ==
    IF Abs(published - calculated) > 1 THEN calculated ELSE published

(* slack_update_timer: the slack is computed, and published if it differs   *)
(* from the published one by more than 1 cm                                 *)
SlackTimer ==
    LET computed == horizontalSlack(rode, depthRaw, distRaw, windRaw)
    IN  /\ slack' = publish(slack, computed)
        /\ Return("calculateAndPublishHorizontalSlack", computed, Enter)
        /\ UNCHANGED <<clock, rode, depthRaw, beat, distRaw, windRaw>>

(* computeTargetHorizontalDistance(L, D) is called; the call and its result *)
(* are recorded                                                             *)
TargetDistance(L, D) ==
    /\ LET r == ChainController_computeTargetHorizontalDistance(L, D, windRaw)
       IN  Return("computeTargetHorizontalDistance", r.v,
                  [Enter EXCEPT !.geo = <<L, D, r>>])
    /\ UNCHANGED <<clock, rode, depthRaw, slack, beat, distRaw, windRaw>>

(* the distance listener receives a reading *)
DistanceChanges(r) ==
    /\ r # distRaw
    /\ distRaw' = r
    /\ Return("env", 0, Enter)
    /\ UNCHANGED <<clock, rode, depthRaw, slack, beat, windRaw>>

GeoNext ==
    \/ SlackTimer
    \/ \E L \in GeoArgs : \E D \in GeoArgs : TargetDistance(L, D)
    \/ \E r \in GeoDists : DistanceChanges(r)
    \/ \E r \in GeoDepths : DepthChanges(r)

GeoSpec == GeoInit /\ [][GeoNext]_vars

----------------------------------------------------------------------------
(* The readings and what the program makes of them: each getter is called   *)
(* under any readings, and what it returned is recorded                     *)

ReadDepths == {NaN, Inf, Num(0), Num(1), Num(300)}
ReadDists == {NaN, NegInf, Num(0), Num(1), Num(500)}
ReadTides == {NaN, Inf, Num(-50), Num(1), Num(120)}
ReadWinds == {NaN, Inf, Num(-100), Num(0), Num(1), Num(1000)}

ReadInit ==
    /\ clock = 1000
    /\ rode = 0
    /\ depthRaw \in ReadDepths
    /\ slack = 0
    /\ cc = InitCC(<<DefaultSpeed, DefaultSpeed>>)
    /\ prefs = [upSpeed |-> DefaultSpeed, downSpeed |-> DefaultSpeed]
    /\ pins = [up |-> FALSE, down |-> FALSE]
    /\ relayLog = <<>>
    /\ op = [name |-> "setup", arg |-> 0, was |-> "IDLE", wasPaused |-> FALSE,
             expired |-> FALSE, same |-> TRUE]
    /\ moveStart = 0
    /\ cals = 0
    /\ beat = FALSE
    /\ distRaw \in ReadDists
    /\ windRaw \in ReadWinds
    /\ dm = InitDM
    /\ rm = InitRM
    /\ loop = [update |-> FALSE, speed |-> FALSE, pulses |-> {},
               retrieval |-> FALSE]
    /\ stages = <<>>
    /\ starts = 0
    /\ geo = <<Num(0), Num(0), Num(0)>>
    /\ tides \in [now : ReadTides, high : ReadTides]
    /\ lastSwitch = [some |-> FALSE, at |-> 0]

Getter(name, value) ==
    /\ Return(name, value, Enter)
    /\ UNCHANGED <<clock, rode, depthRaw, slack, beat, distRaw, windRaw>>

ReadNext ==
    \/ Getter("getCurrentDepth", getCurrentDepth(depthRaw))
    \/ Getter("getCurrentDistance", getCurrentDistance(distRaw))
    \/ Getter("getTideHeightNow", getTideHeightNow(tides.now))
    \/ Getter("getTideHeightHigh", getTideHeightHigh(tides.high))
    \/ Getter("estimateHorizontalForce", estimateHorizontalForce(windRaw))

ReadSpec == ReadInit /\ [][ReadNext]_vars

----------------------------------------------------------------------------
(* A raise under changing slack, with millis() about to wrap: negative      *)
(* instants are those before the wrap                                       *)

SlackGrid == {-3100, -100, 0, 100, 2900, 3000, 6000}
SlackRaiseAmount == 1000

SlackInit ==
    /\ clock = -3100
    /\ rode = 2500
    /\ depthRaw = Num(300)
    /\ slack \in SlackReadings
    /\ cc = InitCC(<<DefaultSpeed, DefaultSpeed>>)
    /\ prefs = [upSpeed |-> DefaultSpeed, downSpeed |-> DefaultSpeed]
    /\ pins = [up |-> FALSE, down |-> FALSE]
    /\ relayLog = <<>>
    /\ op = [name |-> "setup", arg |-> 0, was |-> "IDLE", wasPaused |-> FALSE,
             expired |-> FALSE, same |-> TRUE]
    /\ moveStart = 0
    /\ cals = 0
    /\ beat = FALSE
    /\ distRaw = Num(0)
    /\ windRaw = NaN
    /\ InitSequencers

SlackRaise ==
    /\ cc.state_ = "IDLE"
    /\ cals < MaxCals
    /\ Return("raiseAnchor", SlackRaiseAmount,
              raiseAnchor(Enter, clock, rode, SlackRaiseAmount, depthRaw, slack))
    /\ UNCHANGED <<clock, rode, depthRaw, slack, beat, distRaw, windRaw>>

SlackTick ==
    /\ Live
    /\ \E t \in SlackGrid : t > clock /\ clock' = t
    /\ Return("env", 0, Enter)
    /\ UNCHANGED <<rode, depthRaw, slack, beat, distRaw, windRaw>>

SlackNext ==
    \/ SlackRaise
    \/ SlackTick
    \/ Notify
    \/ \E s \in SlackReadings : PublishSlack(s)

SlackSpec == SlackInit /\ [][SlackNext]_vars

----------------------------------------------------------------------------
(* Properties *)

RelaysOff == ~pins.up /\ ~pins.down

(* C1: the lower relay and the raise relay are never both energized, after  *)
(* any relay write of any lowerAnchor, raiseAnchor, control or stop call,   *)
(* a reversal during an active move included.                               *)
C1_NeverBothEnergized ==
    /\ ~(pins.up /\ pins.down)
    /\ \A i \in 1..Len(relayLog) : ~(relayLog[i].up /\ relayLog[i].down)

(* a lowerAnchor issued while raising has switched the relays over *)
C1_Witness ==
    /\ op.name = "lowerAnchor"
    /\ op.was = "RAISING"
    /\ Len(relayLog) >= 2
    /\ pins.down

(* C2: when control() is entered during a move whose elapsed time exceeds   *)
(* the stored timeout, the actuator is Idle with both relays de-energized   *)
(* when it returns, whatever the instant at which the move was started.     *)
C2_TimeoutStops ==
    (op.name = "control" /\ op.expired) => (cc.state_ = "IDLE" /\ RelaysOff)

(* C3: with the clock advancing and control() invoked again and again,      *)
(* every move started ends with the actuator Idle and both relays           *)
(* de-energized.                                                            *)
C3_MoveEnds ==
    (cc.state_ # "IDLE") ~> (cc.state_ = "IDLE" /\ RelaysOff)


(* C6: lowerAnchor(amount) stores current + amount clamped to               *)
(* [minLength, min(maxLength, stopBeforeMax)] and raiseAnchor(amount)       *)
(* stores current - amount clamped to [minLength, maxLength]; with min 2,   *)
(* max 80, stopBeforeMax 75: lowerAnchor(10) at 70 gives 75 and             *)
(* raiseAnchor(10) at 5 gives 2.                                            *)
C6_TargetClamped ==
    LET lo == cc.min_length_
        hiLower == IF cc.max_length_ < cc.stop_before_max_
                   THEN cc.max_length_ ELSE cc.stop_before_max_
        hiRaise == cc.max_length_
        down == rode + op.arg
        up == rode - op.arg
    IN  /\ cc.min_length_ <= cc.stop_before_max_
        /\ cc.stop_before_max_ <= cc.max_length_
        /\ op.name = "lowerAnchor" =>
              cc.target_ = IF down < lo THEN lo
                           ELSE IF down > hiLower THEN hiLower ELSE down
        /\ op.name = "raiseAnchor" =>
              cc.target_ = IF up < lo THEN lo
                           ELSE IF up > hiRaise THEN hiRaise ELSE up
        /\ (op.name = "lowerAnchor" /\ rode = 7000 /\ op.arg = 1000) =>
              cc.target_ = 7500
        /\ (op.name = "raiseAnchor" /\ rode = 500 /\ op.arg = 1000) =>
              cc.target_ = 200

(* lowerAnchor(10) at 70 m has stored the stop-before-max limit *)
C6_Witness ==
    /\ op.name = "lowerAnchor"
    /\ rode = 7000
    /\ op.arg = 1000
    /\ cc.target_ = 7500

(* C7: when lowerAnchor is called with the rode already at or beyond the    *)
(* clamped target, or raiseAnchor with the rode already at or below it, the *)
(* actuator is Idle and both relays are de-energized when the call returns. *)
C7_SatisfiedCommandStops ==
    /\ (op.name = "lowerAnchor" /\ rode >= cc.target_) =>
          (cc.state_ = "IDLE" /\ RelaysOff)
    /\ (op.name = "raiseAnchor" /\ rode <= cc.target_) =>
          (cc.state_ = "IDLE" /\ RelaysOff)

(* C8: after stop() in a non-idle state the actuator is Idle, both relays   *)
(* are de-energized, the paused-for-slack flag is false and the slack       *)
(* timestamp is cleared; stop() while Idle changes nothing.                 *)
C8_StopIdles ==
    /\ (op.name = "stop" /\ op.was # "IDLE") =>
          /\ cc.state_ = "IDLE"
          /\ RelaysOff
          /\ ~cc.paused_for_slack_
          /\ cc.last_slack_action_time_ = 0
    /\ (op.name = "stop" /\ op.was = "IDLE") => op.same

(* stop() has ended a raise that was paused for slack *)
C8_Witness ==
    /\ op.name = "stop"
    /\ op.was = "RAISING"
    /\ op.wasPaused
    /\ cc.state_ = "IDLE"

(* C9: after lowerAnchor(amount) or raiseAnchor(amount) the stored timeout  *)
(* is floor(amount x speed of that direction) + 5000 ms when amount > 0.01  *)
(* and speed > 0.01, and 10000 ms otherwise; it is at least 5000 ms.        *)
C9_TimeoutAtLeast5000 ==
    op.name \in {"lowerAnchor", "raiseAnchor"} =>
       LET sp == IF op.name = "lowerAnchor" THEN cc.downSpeed_ ELSE cc.upSpeed_
           t == cc.move_timeout_
           stored == IF t >= 0 THEN <<t \div 65536, t % 65536>>
                     ELSE <<(t \div 65536) + 65536, t % 65536>>
       IN  /\ stored = IF op.arg > 1 /\ RatLess(<<1, 100>>, sp)
                       THEN WAdd(WMulDiv(op.arg, sp[1], 100 * sp[2]).q, 5000)
                       ELSE <<0, 10000>>
           /\ ~ult(t, 5000)

(* C10: when a move ends in control() or stop(), the speed of its direction *)
(* becomes 0.2 x (elapsed / |delta|) + 0.8 x old and is persisted if        *)
(* elapsed >= 100 ms and |delta| >= 0.01 m, and is unchanged otherwise; the *)
(* speed of the other direction is unchanged.                               *)
C10_Calibration ==
    [][(cc.state_ # "IDLE" /\ cc'.state_ = "IDLE"
        /\ op'.name \in {"control", "stop"}) =>
       LET elapsed == clock - moveStart
           delta == Abs(rode' - cc.start_position_)
           raising == cc.state_ = "RAISING"
           old == IF raising THEN cc.upSpeed_ ELSE cc.downSpeed_
           new == IF raising THEN cc'.upSpeed_ ELSE cc'.downSpeed_
       IN  /\ IF raising THEN cc'.downSpeed_ = cc.downSpeed_
                         ELSE cc'.upSpeed_ = cc.upSpeed_
           /\ IF elapsed >= 100 /\ delta >= 1
              THEN /\ new[1] * (5 * delta * old[2])
                        = new[2] * (100 * elapsed * old[2] + 4 * old[1] * delta)
                   /\ prefs' = [upSpeed |-> cc'.upSpeed_,
                                downSpeed |-> cc'.downSpeed_]
              ELSE new = old
      ]_vars

(* C4: the deployment sequencer and the retrieval sequencer are never both  *)
(* running.                                                                 *)
C4_OneSequencer == ~(dm.isRunning /\ rm.running_)

(* C5: in every deployment run the stages entered are, in order and with    *)
(* none skipped and none entered twice, Drop, WaitTight, HoldDrop,          *)
(* DEPLOY_30, WaitFirst, HoldFirst, DEPLOY_75, WaitSecond, HoldSecond,      *)
(* DEPLOY_100, Complete, up to the stage the run is in.                     *)
C5_StageOrder ==
    /\ Len(stages) <= Len(Stage)
    /\ \A i \in 1..Len(stages) : stages[i] = Stage[i]
    /\ dm.isRunning => (Len(stages) >= 1 /\ dm.currentStage = stages[Len(stages)])

(* a run has gone through every stage and completed *)
C5_Witness ==
    /\ stages = Stage
    /\ ~dm.isRunning
    /\ dm.currentStage = "IDLE"
    /\ op.name = "updateDeployment"

(* C11: upSpeed_ and downSpeed_ are > 0 in every reachable state, whatever  *)
(* moves, stops, timeouts and reversals have been made from positive        *)
(* starting values.                                                         *)
C11_SpeedsPositive ==
    /\ cc.upSpeed_[1] > 0 /\ cc.upSpeed_[2] > 0
    /\ cc.downSpeed_[1] > 0 /\ cc.downSpeed_[2] > 0

(* a move has just ended with a calibration that changed a speed *)
C11_Witness ==
    /\ cals >= 1
    /\ op.name \in {"control", "stop"}
    /\ op.was # "IDLE"
    /\ cc.state_ = "IDLE"
    /\ ~op.same
    /\ prefs = [upSpeed |-> cc.upSpeed_, downSpeed |-> cc.downSpeed_]
    /\ \A sp \in SpeedStarts : <<cc.upSpeed_, cc.downSpeed_>> # sp
(* C12: a calibration with raw speed r brings the stored speed of the       *)
(* direction moved closer to r without overshooting: speed' - r =           *)
(* 0.8 x (speed - r), and speed' lies between speed and r.                  *)
C12_Converges ==
    [][(/\ cc.state_ # "IDLE" /\ cc'.state_ = "IDLE"
        /\ op'.name = "control"
        /\ cc.movement_start_time_ # 0
        /\ clock' - cc.movement_start_time_ >= 100
        /\ Abs(rode' - cc.start_position_) >= 1) =>
       LET r == Rat(100 * (clock' - cc.movement_start_time_),
                    Abs(rode' - cc.start_position_))
           raising == cc.state_ = "RAISING"
           old == IF raising THEN cc.upSpeed_ ELSE cc.downSpeed_
           new == IF raising THEN cc'.upSpeed_ ELSE cc'.downSpeed_
           minus(p, q) == RatAdd(p, <<-q[1], q[2]>>)
           leq(p, q) == ~RatLess(q, p)
       IN  /\ minus(new, r) = RatMul(<<4, 5>>, minus(old, r))
           /\ \/ leq(old, new) /\ leq(new, r)
              \/ leq(r, new) /\ leq(new, old)
      ]_vars

(* the third completed move of a behaviour has been calibrated *)
C12_Witness ==
    /\ cals = MaxRepeats
    /\ op.name = "control"
    /\ op.was # "IDLE"
    /\ cc.state_ = "IDLE"
(* C13: start() called with a depth reading that is NaN, infinite, below    *)
(* 3 m or above 45 m changes nothing: no plan value, no timer, no actuator  *)
(* command, and a sequencer that was not running stays Idle and not         *)
(* running; a lowerAnchor command made next sets the actuator lowering.     *)
C13_RefusesToStart ==
    [][/\ (/\ op'.name = "DeploymentManager::start"
            /\ (depthRaw.k # "num" \/ depthRaw.v < 300 \/ depthRaw.v > 4500)) =>
           /\ dm' = dm /\ loop' = loop /\ stages' = stages
           /\ cc' = cc /\ pins' = pins /\ relayLog' = <<>>
           /\ ~dm.isRunning => (~dm'.isRunning /\ dm'.currentStage = "IDLE")
       /\ (/\ op.name = "DeploymentManager::start"
            /\ (depthRaw.k # "num" \/ depthRaw.v < 300 \/ depthRaw.v > 4500)
            /\ ~dm.isRunning
            /\ op'.name = "lowerAnchor" /\ op'.arg >= 1) =>
           /\ cc'.state_ = "LOWERING"
           /\ pins'.down /\ ~pins'.up
      ]_vars

(* every start() so far was refused, and a manual lowerAnchor has set the   *)
(* actuator lowering                                                        *)
C13_Witness ==
    /\ starts >= 1
    /\ dm = InitDM
    /\ loop.pulses = {} /\ ~loop.update /\ ~loop.speed
    /\ (depthRaw.k # "num" \/ depthRaw.v < 300 \/ depthRaw.v > 4500)
    /\ op.name = "lowerAnchor"
    /\ cc.state_ = "LOWERING"
    /\ pins.down
(* C14: an accepted start(scopeRatio) uses scopeRatio clamped to [3,10],    *)
(* anchorDepth = tide-adjusted depth + bow height (no tide data: the depth  *)
(* reading), totalChainLength = max(10 m, ratio x anchorDepth), and the     *)
(* intermediate stage targets are 40% and 80% of that total.                *)
C14_Plan ==
    [][(op'.name = "DeploymentManager::start" /\ ~dm.isRunning /\ dm'.isRunning) =>
       LET ratio == IF op'.arg < 3 THEN 3 ELSE IF op'.arg > 10 THEN 10 ELSE op'.arg
           anchor == getCurrentDepth(depthRaw) + BOW_HEIGHT_M
           total == IF ratio * anchor < 1000 THEN 1000 ELSE ratio * anchor
       IN  /\ dm'.anchorDepth = anchor
           /\ dm'.totalChainLength = total
           /\ dm'.chain30 = (40 * total) \div 100
           /\ dm'.chain75 = (80 * total) \div 100
      ]_vars
(* C15: when stop() has returned from a running stage, on a command or on   *)
(* natural completion, no deployment tick, deploy pulse or speed sample is  *)
(* scheduled, the stage is Idle, and the actuator is Idle with both relays  *)
(* de-energized.                                                            *)
C15_StopQuiesces ==
    (op.name \in {"DeploymentManager::stop", "updateDeployment"} /\ ~dm.isRunning) =>
       /\ ~loop.update /\ ~loop.speed /\ loop.pulses = {}
       /\ dm.currentStage = "IDLE"
       /\ cc.state_ = "IDLE"
       /\ ~pins.up /\ ~pins.down
(* C16: a retrieval tick in Raising, outside the final-pull zone (rode >=   *)
(* depth + 10 m) and with the actuator active, that reads slack < 0 stops   *)
(* the actuator in that tick (Idle, both relays off), moves the sequencer   *)
(* to WaitingForSlack and starts the cooldown; the sequencer issues a       *)
(* raiseAnchor only 3000 ms or more after the start of the cooldown.        *)
C16_NegativeSlackStops ==
    [][/\ (/\ op'.name = "updateRetrieval"
            /\ rm.running_ /\ rm.state_ = "RAISING"
            /\ rode >= getCurrentDepth(depthRaw) + RetrievalManager_FINAL_PULL_THRESHOLD_M
            /\ cc.state_ # "IDLE"
            /\ slack < 0) =>
           /\ cc'.state_ = "IDLE"
           /\ ~pins'.up /\ ~pins'.down
           /\ rm'.state_ = "WAITING_FOR_SLACK"
           /\ rm'.lastRaiseTime_ = clock
       /\ (/\ op'.name = "updateRetrieval"
            /\ rm.state_ # "RAISING" /\ rm'.state_ = "RAISING") =>
           /\ clock - rm.lastRaiseTime_ >= COOLDOWN_AFTER_RAISE_MS
           /\ rm.state_ = "CHECKING_SLACK"
      ]_vars

(* the tick has just stopped the active actuator on a negative slack,       *)
(* outside the final-pull zone                                              *)
C16_Witness ==
    /\ op.name = "updateRetrieval"
    /\ op.was = "RAISING"
    /\ cc.state_ = "IDLE"
    /\ ~pins.up
    /\ rm.running_ /\ rm.state_ = "WAITING_FOR_SLACK"
    /\ rm.lastRaiseTime_ = clock
    /\ slack < 0
    /\ rode >= getCurrentDepth(depthRaw) + RetrievalManager_FINAL_PULL_THRESHOLD_M
(* C17: a retrieval tick in CheckingSlack with rode <= 2.0 m ends the run   *)
(* in that tick: the run is marked complete and no longer running, its      *)
(* tick is cancelled, the actuator is stopped if it was active, and no      *)
(* relay write of the tick energizes the raise relay.                       *)
C17_CompletesAtThreshold ==
    [][(/\ op'.name = "updateRetrieval"
        /\ rm.running_ /\ rm.state_ = "CHECKING_SLACK"
        /\ rode <= COMPLETION_THRESHOLD_M) =>
       /\ rm'.completed_
       /\ ~rm'.running_
       /\ ~rm'.updateEvent_ /\ ~loop'.retrieval
       /\ cc'.state_ = "IDLE"
       /\ ~pins'.up /\ ~pins'.down
       /\ \A i \in 1..Len(relayLog') :
             relayLog'[i].up => (IF i = 1 THEN pins.up ELSE relayLog'[i-1].up)
      ]_vars

(* the completing tick found the actuator active and stopped it *)
C17_Witness ==
    /\ op.name = "updateRetrieval"
    /\ op.was # "IDLE"
    /\ rm.completed_ /\ ~rm.running_
    /\ ~loop.retrieval
    /\ cc.state_ = "IDLE"
    /\ rode <= COMPLETION_THRESHOLD_M
(* C18: a step that ends a retrieval run, stop() on a command or on natural *)
(* completion, leaves the tick cancelled, the actuator Idle with both       *)
(* relays off and the state Idle, and invokes the completion callback once; *)
(* no other step invokes it, and stop() on a sequencer that is not running  *)
(* changes nothing.                                                         *)
C18_RetrievalStop ==
    [][/\ (rm.running_ /\ ~rm'.running_) =>
           /\ op'.name \in {"RetrievalManager::stop", "updateRetrieval"}
           /\ ~rm'.updateEvent_ /\ ~loop'.retrieval
           /\ cc'.state_ = "IDLE"
           /\ ~pins'.up /\ ~pins'.down
           /\ rm'.state_ = "IDLE"
           /\ rm'.callbacks = rm.callbacks + 1
       /\ ~(rm.running_ /\ ~rm'.running_) => rm'.callbacks = rm.callbacks
       /\ (op'.name = "RetrievalManager::stop" /\ ~rm.running_) =>
           /\ rm' = rm /\ dm' = dm /\ loop' = loop
           /\ cc' = cc /\ pins' = pins /\ relayLog' = <<>>
      ]_vars

(* stop() has ended a run whose actuator was active *)
C18_Witness ==
    /\ op.name = "RetrievalManager::stop"
    /\ op.was # "IDLE"
    /\ ~rm.running_ /\ rm.state_ = "IDLE"
    /\ rm.callbacks = 1
    /\ ~loop.retrieval
    /\ cc.state_ = "IDLE"
(* C19: targetHorizontalDistance(L, D) returns 0 when D > L or an input is  *)
(* NaN or infinite, and otherwise a value r with 0 <= r and                 *)
(* r^2 <= L^2 - D^2, for all L and D, negative ones included.               *)
C19_TargetDistance ==
    op.name = "computeTargetHorizontalDistance" =>
       LET L == geo[1]
           D == geo[2]
           r == geo[3]
       IN  IF L.k # "num" \/ D.k # "num" THEN r = Num(0)
           ELSE IF D.v > L.v THEN r = Num(0)
           ELSE /\ r.k = "num"
                /\ r.v >= 0
                /\ r.v * r.v <= (L.v * L.v) - (D.v * D.v)

(* C20, as stated: the slack computed is 0 whenever the chain length, the depth or the *)
(* measured distance is invalid (NaN, infinite, <= 0.01) and whenever the   *)
(* chain length is below depth + bow height.                                *)
C20_SlackZero ==
    (/\ op.name = "calculateAndPublishHorizontalSlack"
     /\ \/ rode <= 1
        \/ depthRaw.k # "num" \/ depthRaw.v <= 1
        \/ distRaw.k # "num" \/ distRaw.v <= 1
        \/ rode < depthRaw.v + BOW_HEIGHT_M) =>
       op.arg = 0
(* C20, as the code has it: the slack computed is 0 whenever the chain      *)
(* length or the depth is invalid and whenever the chain length is below    *)
(* depth + bow height; with those valid, an invalid distance counts as the  *)
(* boat standing over the anchor and the slack is chain - (depth + bow      *)
(* height); otherwise it is chain - minimum chain needed, which is at most  *)
(* the chain less the straight line from bow to anchor.                     *)
C20_Slack ==
    op.name = "calculateAndPublishHorizontalSlack" =>
       LET total == depthRaw.v + BOW_HEIGHT_M
       IN  IF \/ rode <= 1
              \/ depthRaw.k # "num" \/ depthRaw.v <= 1
              \/ rode < total
           THEN op.arg = 0
           ELSE IF distRaw.k # "num" \/ distRaw.v <= 1
           THEN op.arg = rode - total
           ELSE /\ op.arg <= rode - total
                /\ op.arg <= rode - sqrt((distRaw.v * distRaw.v)
                                           + (total * total)).v

C20_Witness ==
    /\ op.name = "calculateAndPublishHorizontalSlack"
    /\ distRaw.k # "num"
    /\ rode >= depthRaw.v + BOW_HEIGHT_M
    /\ op.arg > 0
    /\ slack = op.arg
(* C21: the published slack changes only in a slack computation whose new   *)
(* value differs from the published one by more than 0.01 m; after such a   *)
(* computation published and computed are within 0.01 m of each other, and *)
(* a computed value within 0.01 m of the published one leaves the published *)
(* value untouched.                                                         *)
C21_Republish ==
    [][/\ slack' # slack =>
            /\ op'.name = "calculateAndPublishHorizontalSlack"
            /\ Abs(slack - op'.arg) > 1
       /\ op'.name = "calculateAndPublishHorizontalSlack" =>
            /\ Abs(slack' - op'.arg) <= 1
            /\ Abs(slack - op'.arg) <= 1 => slack' = slack
            /\ Abs(slack - op'.arg) > 1 => slack' = op'.arg]_vars

C21_Witness ==
    /\ op.name = "calculateAndPublishHorizontalSlack"
    /\ Abs(slack - op.arg) = 1
(* C22: a depth, distance, tide-now or tide-high reading that is NaN,       *)
(* infinite or <= 0.01 is replaced by 0, and a wind-speed reading that is   *)
(* NaN, infinite or <= 0.01 by the default of 10 knots (514 cm/s); any      *)
(* other reading is used as it is.                                          *)
C22_Validated ==
    LET unknown(r) == r.k # "num" \/ r.v <= 1
        checked(r) == IF unknown(r) THEN 0 ELSE r.v
    IN  /\ op.name = "getCurrentDepth" => op.arg = checked(depthRaw)
        /\ op.name = "getCurrentDistance" => op.arg = checked(distRaw)
        /\ op.name = "getTideHeightNow" => op.arg = checked(tides.now)
        /\ op.name = "getTideHeightHigh" => op.arg = checked(tides.high)
        /\ op.name = "estimateHorizontalForce" =>
              op.arg = estimateHorizontalForce(
                          IF unknown(windRaw) THEN Num(514) ELSE windRaw)
(* C23: a control(pos) call in LOWERING with pos >= target or               *)
(* pos >= stopBeforeMax leaves the actuator idle with the lower relay off,  *)
(* and any other pos leaves it lowering with the lower relay energized; a   *)
(* control(pos) call in RAISING with pos <= target or pos <= minLength      *)
(* leaves the actuator idle with the raise relay off and the paused flag    *)
(* cleared, whatever the slack, the pause state and the cooldown.           *)
C23_TargetReached ==
    [][op'.name = "control" =>
         LET pos == op'.arg
         IN  /\ cc.state_ = "LOWERING" =>
                   IF pos >= cc.target_ \/ pos >= cc.stop_before_max_
                   THEN cc'.state_ = "IDLE" /\ ~pins'.down
                   ELSE cc'.state_ = "LOWERING" /\ pins'.down
             /\ (/\ cc.state_ = "RAISING"
                 /\ pos <= cc.target_ \/ pos <= cc.min_length_) =>
                   /\ cc'.state_ = "IDLE"
                   /\ ~pins'.up
                   /\ ~cc'.paused_for_slack_]_vars
(* C24: whenever control() runs in RAISING with the target not reached and  *)
(* the position at or below depth + bow height + 3 m, the raise relay is    *)
(* energized when control() returns, for every slack value and whatever the *)
(* paused-for-slack state was.                                              *)
C24_FinalPull ==
    [][(/\ op'.name = "control"
        /\ cc.state_ = "RAISING"
        /\ op'.arg > cc.target_ /\ op'.arg > cc.min_length_
        /\ op'.arg <= getCurrentDepth(depthRaw) + BOW_HEIGHT_M
                        + FINAL_PULL_THRESHOLD_M) =>
         pins'.up]_vars
(* C25: in a control() call that finds and leaves the actuator RAISING      *)
(* outside the final-pull zone, the raise is paused (relay de-energized,    *)
(* flag set) only if it was not paused, slack < 0.2 m and at least 3000 ms  *)
(* have passed since the last pause or resume of this raise, or there was   *)
(* none; it is resumed (relay energized, flag cleared) only if it was       *)
(* paused, slack >= 1.0 m and at least 3000 ms have passed since the pause; *)
(* otherwise relay and flag are unchanged.  Two consecutive switches of one *)
(* raise are thus at least 3000 ms apart.                                   *)
C25_SlackHysteresis ==
    [][(/\ op'.name = "control"
        /\ cc.state_ = "RAISING" /\ cc'.state_ = "RAISING"
        /\ op'.arg > getCurrentDepth(depthRaw) + BOW_HEIGHT_M
                       + FINAL_PULL_THRESHOLD_M) =>
         LET cooled == \/ ~lastSwitch.some
                       \/ clock' - lastSwitch.at >= SLACK_COOLDOWN_MS
         IN  /\ (~cc.paused_for_slack_ /\ cc'.paused_for_slack_) =>
                   ~pins'.up /\ slack < PAUSE_SLACK_M /\ cooled
             /\ (cc.paused_for_slack_ /\ ~cc'.paused_for_slack_) =>
                   pins'.up /\ slack >= RESUME_SLACK_M /\ cooled
             /\ cc'.paused_for_slack_ = cc.paused_for_slack_ => pins' = pins]_vars
(* C26: in a lowerAnchor or raiseAnchor call whose clamped target is        *)
(* already met by the rode, no relay output is energized at any point of    *)
(* the call, not even between the relay write and the control() check.      *)
C26_NoPulse ==
    (\/ op.name = "lowerAnchor" /\ rode >= cc.target_
     \/ op.name = "raiseAnchor" /\ rode <= cc.target_) =>
       \A i \in DOMAIN relayLog : ~relayLog[i].up /\ ~relayLog[i].down
(* C27: in every deployment run, one that follows a run stopped in DROP     *)
(* included, with the rode more than 0.01 m short of the initial target the *)
(* sequencer leaves DROP for WAIT_TIGHT only after it has issued its        *)
(* lowerAnchor command in this run (dropInitiated, which start() clears)    *)
(* and that move has finished, or with the rode at the target; and it       *)
(* issues the command once.                                                 *)
C27_Drop ==
    [][/\ (dm.currentStage = "DROP" /\ dm'.currentStage = "WAIT_TIGHT") =>
            \/ rode >= dm.targetDropDepth - 1
            \/ dm.dropInitiated /\ cc.state_ = "IDLE"
       /\ (/\ dm.currentStage = "DROP" /\ dm'.currentStage = "DROP"
           /\ op'.name = "updateDeployment"
           /\ \E i \in DOMAIN relayLog' : relayLog'[i].down) =>
            ~dm.dropInitiated /\ dm'.dropInitiated]_vars
(* C28: in WAIT_TIGHT, WAIT_30 and WAIT_75 a tick of the sequencer advances *)
(* to the following hold stage when the measured distance is at or beyond   *)
(* the stage's target distance and also, when the distance is unavailable   *)
(* (not a number, or <= 0.01 m), when the slack is below 0.5 m.             *)
C28_WaitAdvances ==
    (dm.isRunning /\ dm.currentStage \in {"WAIT_TIGHT", "WAIT_30", "WAIT_75"}) =>
       LET target == CASE dm.currentStage = "WAIT_TIGHT" -> dm.targetDistanceInit
                       [] dm.currentStage = "WAIT_30" -> dm.targetDistance30
                       [] dm.currentStage = "WAIT_75" -> dm.targetDistance75
           hold == CASE dm.currentStage = "WAIT_TIGHT" -> "HOLD_DROP"
                     [] dm.currentStage = "WAIT_30" -> "HOLD_30"
                     [] dm.currentStage = "WAIT_75" -> "HOLD_75"
           after == updateDeployment(Enter, Env).dm.currentStage
           unavailable == dm.ewmaDistance.k # "num" \/ dm.ewmaDistance.v <= 1
       IN  /\ GreaterEq(dm.ewmaDistance, target) => after = hold
           /\ (unavailable /\ slack < 50) => after = hold
HoldDwell ==
    CASE dm.currentStage = "HOLD_DROP" -> 2000
      [] dm.currentStage = "HOLD_30" -> 30000
      [] dm.currentStage = "HOLD_75" -> 75000
      [] OTHER -> 0

HoldNext ==
    CASE dm.currentStage = "HOLD_DROP" -> "DEPLOY_30"
      [] dm.currentStage = "HOLD_30" -> "DEPLOY_75"
      [] dm.currentStage = "HOLD_75" -> "DEPLOY_100"
      [] OTHER -> "IDLE"

Holding == dm.isRunning /\ dm.currentStage \in {"HOLD_DROP", "HOLD_30", "HOLD_75"}

(* C29: a hold stage is entered with its clock started, is left by the      *)
(* sequencer only for the following stage and only once 2000 ms (HOLD_DROP), *)
(* 30000 ms (HOLD_30) or 75000 ms (HOLD_75) have passed since it was        *)
(* entered; no handler of the sequencer touches the actuator during the     *)
(* hold; and a tick at or after the dwell leaves the stage.                 *)
C29_HoldDwell ==
    /\ [](Holding /\ clock - dm.stageStartTime >= HoldDwell =>
            updateDeployment(Enter, Env).dm.currentStage = HoldNext)
    /\ [][/\ (~Holding /\ Holding') => dm'.stageStartTime = clock'
          /\ (Holding /\ dm'.currentStage # dm.currentStage
                 /\ op'.name # "DeploymentManager::stop") =>
                /\ clock' - dm.stageStartTime >= HoldDwell
                /\ dm'.currentStage = HoldNext
          /\ (Holding /\ op'.name \in {"updateDeployment", "deployPulse",
                                         "speedUpdate"}) =>
                /\ relayLog' = <<>>
                /\ cc' = cc /\ pins' = pins]_vars

C29_Witness ==
    /\ dm.currentStage = "DEPLOY_100"
    /\ stages[Len(stages)] = "DEPLOY_100"
    /\ op.name = "updateDeployment"
    /\ clock - dm.stageStartTime = 75000
(* C30: during DEPLOY_30, DEPLOY_75 and DEPLOY_100 the lower relay is       *)
(* de-energized once the slack exceeds 1.2 x depth and every due handler    *)
(* has run, and a slack below 0.6 x depth does not hold the pay-out back: a *)
(* pulse that would command the windlass at no slack commands it.           *)
C30_Hysteresis ==
    (dm.isRunning /\ dm.currentStage \in {"DEPLOY_30", "DEPLOY_75", "DEPLOY_100"}) =>
       LET depth == getCurrentDepth(depthRaw)
       IN  /\ (Settled /\ 10 * slack > 12 * depth) => ~pins.down
           /\ \A p \in loop.pulses :
                 LET m == [Enter EXCEPT !.loop.pulses = @ \ {p}]
                     got == deployPulse(m, Env, p.target)
                     free == deployPulse(m, [Env EXCEPT !.slack = 0], p.target)
                 IN  (/\ p.fresh
                      /\ cc.state_ = "IDLE"
                      /\ 10 * slack < 6 * depth
                      /\ free.pins.down) => got.pins.down
(* C31: a tick of the sequencer in DEPLOY_30, DEPLOY_75 or DEPLOY_100 that  *)
(* finds the rode at or beyond the target length of the stage cancels the   *)
(* pulse callback, leaves the actuator stopped (IDLE, both relays           *)
(* de-energized) and advances to WAIT_30, WAIT_75 or COMPLETE.              *)
C31_DeployTargetReached ==
    LET target == CASE dm.currentStage = "DEPLOY_30" -> dm.chain30
                    [] dm.currentStage = "DEPLOY_75" -> dm.chain75
                    [] OTHER -> dm.totalChainLength
        next == CASE dm.currentStage = "DEPLOY_30" -> "WAIT_30"
                  [] dm.currentStage = "DEPLOY_75" -> "WAIT_75"
                  [] OTHER -> "COMPLETE"
        after == updateDeployment(Enter, Env)
    IN  (/\ dm.isRunning
         /\ dm.currentStage \in {"DEPLOY_30", "DEPLOY_75", "DEPLOY_100"}
         /\ rode >= target) =>
           /\ after.dm.deployPulseEvent = 0
           /\ after.loop.pulses = {}
           /\ after.cc.state_ = "IDLE"
           /\ ~after.pins.up /\ ~after.pins.down
           /\ after.stages[Len(after.stages)] = next
(* C32: the pulse lambda, fired when the sequencer is stopped or is in      *)
(* another stage or has another stage target than the one it was scheduled  *)
(* for, commands nothing and schedules nothing; no callback is pending      *)
(* unless it is the one of the running DEPLOY stage and its target; and the *)
(* sequencer issues lowerAnchor only from a tick in DROP or from a pulse in *)
(* a DEPLOY stage, the pulse for the target of the stage it fires in,       *)
(* whatever the order of ticks, pulses, stop() and start().                 *)
C32_StaleCallback ==
    /\ [](LET live == dm.isRunning
                      /\ dm.currentStage \in {"DEPLOY_30", "DEPLOY_75", "DEPLOY_100"}
              target == CASE dm.currentStage = "DEPLOY_30" -> dm.chain30
                          [] dm.currentStage = "DEPLOY_75" -> dm.chain75
                          [] OTHER -> dm.totalChainLength
          IN  /\ \A p \in loop.pulses :
                    live /\ p.target = target /\ dm.deployPulseEvent = p.id
              /\ \A t \in {dm.chain30, dm.chain75, dm.totalChainLength} :
                    (~live \/ t # target) =>
                       LET got == deployPulse(Enter, Env, t)
                       IN  /\ got.cc = cc /\ got.pins = pins /\ got.log = <<>>
                           /\ got.loop = loop
                           /\ got.dm.deployPulseEvent = 0)
    /\ [][LET target == CASE dm.currentStage = "DEPLOY_30" -> dm.chain30
                          [] dm.currentStage = "DEPLOY_75" -> dm.chain75
                          [] OTHER -> dm.totalChainLength
              lowers == \E i \in DOMAIN relayLog' : relayLog'[i].down
          IN  /\ (op'.name = "deployPulse" /\ lowers) =>
                    /\ dm.isRunning /\ dm'.currentStage = dm.currentStage
                    /\ dm.currentStage \in {"DEPLOY_30", "DEPLOY_75", "DEPLOY_100"}
                    /\ op'.arg = target
                    /\ cc'.target_ <= target
              /\ (op'.name = "updateDeployment" /\ lowers) =>
                    /\ dm.isRunning /\ dm.currentStage = "DROP"
                    /\ dm'.currentStage = "DROP"
                    /\ cc'.target_ <= dm.targetDropDepth
              /\ (op'.name \in {"DeploymentManager::start", "speedUpdate",
                                 "DeploymentManager::stop"}) =>
                    relayLog' = <<>>]_vars

C32_Witness ==
    /\ op.name = "deployPulse"
    /\ starts = 2
    /\ dm.currentStage = "DEPLOY_30"
    /\ cc.state_ = "LOWERING" /\ pins.down
    /\ cc.target_ = dm.chain30
(* C33: a tick of the retrieval sequencer in CHECKING_SLACK with more than  *)
(* 2.0 m of rode out and the actuator busy changes nothing: not the state   *)
(* of the sequencer, not its cooldown clock, not the actuator or its        *)
(* relays; and no tick writes the raise relay unless it found the actuator  *)
(* idle.                                                                    *)
C33_WaitsWhileBusy ==
    /\ []((/\ rm.running_ /\ rm.state_ = "CHECKING_SLACK"
           /\ rode > COMPLETION_THRESHOLD_M
           /\ cc.state_ # "IDLE") =>
             LET got == updateRetrieval(Enter, Env)
             IN  /\ got.rm = rm /\ got.cc = cc /\ got.pins = pins
                 /\ got.log = <<>> /\ got.loop = loop)
    /\ [][(/\ op'.name = "updateRetrieval"
           /\ \E i \in DOMAIN relayLog' : relayLog'[i].up) =>
             cc.state_ = "IDLE"]_vars

C33_Witness ==
    /\ rm.running_ /\ rm.state_ = "CHECKING_SLACK"
    /\ rode > COMPLETION_THRESHOLD_M
    /\ cc.state_ = "LOWERING" /\ pins.down
    /\ op.name = "control"
(* C34: a tick in CHECKING_SLACK with more than 2.0 m of rode out and the   *)
(* actuator idle issues no raise before 3000 ms have passed since the       *)
(* recorded raise time; after that, with the rode less than depth + 10 m,   *)
(* it issues raiseAnchor(rode - 2.0) once and goes to RAISING; otherwise it *)
(* issues raiseAnchor(slack), records the time and goes to RAISING if the   *)
(* slack is at least 0.3 x depth and at least 1.0 m, and goes to            *)
(* WAITING_FOR_SLACK without a command if it is not.                        *)
C34_RaiseDecision ==
    (/\ rm.running_ /\ rm.state_ = "CHECKING_SLACK"
     /\ rode > COMPLETION_THRESHOLD_M
     /\ cc.state_ = "IDLE") =>
       LET got == updateRetrieval(Enter, Env)
           depth == getCurrentDepth(depthRaw)
           raises == Cardinality({i \in DOMAIN got.log :
                                     /\ got.log[i].up
                                     /\ i > 1 => ~got.log[i-1].up})
           elapsed == ~ult(clock - rm.lastRaiseTime_, COOLDOWN_AFTER_RAISE_MS)
           quiet == got.log = <<>> /\ got.cc = cc /\ got.pins = pins
       IN  IF ~elapsed THEN quiet
           ELSE IF rode < depth + RetrievalManager_FINAL_PULL_THRESHOLD_M
           THEN /\ raises = 1
                /\ got.cc.target_ = raiseTarget(cc, rode, rode - COMPLETION_THRESHOLD_M)
                /\ got.rm.state_ = "RAISING"
           ELSE IF 10 * slack >= 3 * depth /\ slack >= 100
           THEN /\ raises = 1
                /\ got.cc.target_ = raiseTarget(cc, rode, slack)
                /\ got.rm.lastRaiseTime_ = clock
                /\ got.rm.state_ = "RAISING"
           ELSE quiet /\ got.rm.state_ = "WAITING_FOR_SLACK"
(* C35: while the retrieval sequencer is in RAISING with the rode less than *)
(* depth + 10 m, a step de-energizes the raise relay only when the actuator *)
(* has reached its target or its minimum length, or its movement timeout    *)
(* has fired: no slack reading does, through the sequencer or through the   *)
(* slack monitoring of the actuator.                                        *)
C35_FinalPullRuns ==
    [][(/\ rm.running_ /\ rm.state_ = "RAISING"
        /\ rode < getCurrentDepth(depthRaw) + RetrievalManager_FINAL_PULL_THRESHOLD_M
        /\ pins.up /\ ~pins'.up) =>
          /\ cc'.state_ = "IDLE"
          /\ \/ rode' <= cc.target_
             \/ rode' <= cc.min_length_
             \/ op'.expired]_vars
(* C36 as stated: a tick in WAITING_FOR_SLACK returns to CHECKING_SLACK     *)
(* when the rode is at most 2.0 m or less than depth + 10 m, whether or not *)
(* the 3000 ms cooldown has elapsed, otherwise only when the cooldown has   *)
(* elapsed and the slack is at least 0.3 x depth, and stays in every other  *)
(* case; it never commands the actuator.                                    *)
C36_NoCooldownGate ==
    (rm.running_ /\ rm.state_ = "WAITING_FOR_SLACK") =>
       LET got == updateRetrieval(Enter, Env)
           depth == getCurrentDepth(depthRaw)
           elapsed == ~ult(clock - rm.lastRaiseTime_, COOLDOWN_AFTER_RAISE_MS)
           back == \/ rode <= COMPLETION_THRESHOLD_M
                   \/ rode < depth + RetrievalManager_FINAL_PULL_THRESHOLD_M
                   \/ elapsed /\ 10 * slack >= 3 * depth
       IN  /\ got.cc = cc /\ got.pins = pins /\ got.log = <<>>
           /\ got.rm = [rm EXCEPT !.state_ = IF back THEN "CHECKING_SLACK"
                                             ELSE "WAITING_FOR_SLACK"]

(* C36, amended: a tick in WAITING_FOR_SLACK returns to CHECKING_SLACK when *)
(* the rode is at most 2.0 m whatever the cooldown, and otherwise only once *)
(* the 3000 ms cooldown has elapsed and the rode is less than depth + 10 m  *)
(* or the slack is at least 0.3 x depth; in every other case it stays; it   *)
(* never commands the actuator.                                             *)
C36_Waiting ==
    (rm.running_ /\ rm.state_ = "WAITING_FOR_SLACK") =>
       LET got == updateRetrieval(Enter, Env)
           depth == getCurrentDepth(depthRaw)
           elapsed == ~ult(clock - rm.lastRaiseTime_, COOLDOWN_AFTER_RAISE_MS)
           back == \/ rode <= COMPLETION_THRESHOLD_M
                   \/ /\ elapsed
                      /\ \/ rode < depth + RetrievalManager_FINAL_PULL_THRESHOLD_M
                         \/ 10 * slack >= 3 * depth
       IN  /\ got.cc = cc /\ got.pins = pins /\ got.log = <<>>
           /\ got.rm = [rm EXCEPT !.state_ = IF back THEN "CHECKING_SLACK"
                                             ELSE "WAITING_FOR_SLACK"]

(* a tick has put the sequencer in WAITING_FOR_SLACK in the final-pull zone *)
(* during the cooldown                                                      *)
C36_Witness ==
    /\ rm.running_ /\ rm.state_ = "WAITING_FOR_SLACK"
    /\ op.name = "updateRetrieval"
    /\ rode > COMPLETION_THRESHOLD_M
    /\ rode < getCurrentDepth(depthRaw) + RetrievalManager_FINAL_PULL_THRESHOLD_M
    /\ ult(clock - rm.lastRaiseTime_, COOLDOWN_AFTER_RAISE_MS)
(* C37: start() on a retrieval sequencer that is not running sets the state *)
(* to CHECKING_SLACK, clears the completed flag, schedules the periodic     *)
(* tick and leaves the cooldown clock such that the 3000 ms cooldown is     *)
(* over at once, at whatever instant it is called; start() on a running     *)
(* sequencer changes nothing.                                               *)
C37_Start ==
    [][/\ rm.running_ => RetrievalManager_start(Enter, Env) = Enter
       /\ (op'.name = "RetrievalManager::start" /\ ~rm.running_) =>
            /\ rm'.running_ /\ rm'.state_ = "CHECKING_SLACK"
            /\ ~rm'.completed_
            /\ rm'.updateEvent_ /\ loop'.retrieval
            /\ cc' = cc /\ pins' = pins
            /\ ~ult(clock' - rm'.lastRaiseTime_, COOLDOWN_AFTER_RAISE_MS)]_vars
(* C38: between calls the relay outputs follow the state of the actuator:   *)
(* the lower relay is energized exactly when the state is LOWERING and the  *)
(* raise relay exactly when the state is RAISING and the raise is not       *)
(* paused for slack.                                                        *)
C38_RelaysFollowState ==
    /\ pins.down <=> cc.state_ = "LOWERING"
    /\ pins.up <=> (cc.state_ = "RAISING" /\ ~cc.paused_for_slack_)

(* a raise is paused for slack: RAISING with the raise relay de-energized *)
C38_Witness ==
    /\ cc.state_ = "RAISING" /\ cc.paused_for_slack_
    /\ ~pins.up /\ ~pins.down
    /\ op.name = "control"
(* The retrieval sequencer left to run under a slack that stays what it was *)
(* at the start: every handler that has something to do gets its turn.      *)
FinishNext ==
    \/ Advance
    \/ RetrieveStart
    \/ RetrieveUpdate
    \/ WindlassTurns
    \/ Watchdog

FinishSpec ==
    /\ RetrieveInit
    /\ [][FinishNext]_vars
    /\ WF_vars(Advance)
    /\ WF_vars(RetrieveUpdate)
    /\ WF_vars(WindlassTurns)
    /\ WF_vars(Watchdog)

(* C39: with the slack at or above 0.3 x depth and 1.0 m, the windlass      *)
(* turning while the raise relay is energized and the ticks firing, a       *)
(* retrieval run that has been started completes: the rode is at most       *)
(* 2.0 m, isComplete() is true and the sequencer is no longer running.      *)
C39_Terminates ==
    (/\ rm.running_
     /\ \E s \in {slack} : \E d \in {getCurrentDepth(depthRaw)} :
           10 * s >= 3 * d /\ s >= MIN_RAISE_AMOUNT_M) ~>
       (rm.completed_ /\ ~rm.running_ /\ rode <= COMPLETION_THRESHOLD_M)
(* C40: during a deployment run no handler of the sequencer writes the      *)
(* raise relay, and every lowerAnchor it issues is for the rode as it is    *)
(* and a target at most the target length of the stage in progress (the     *)
(* initial drop target, chain30, chain75 or the total chain length) and at  *)
(* most the total chain length; in the DEPLOY stages it is issued with the  *)
(* actuator idle.                                                           *)
C40_NoOvershoot ==
    [][(op'.name \in {"updateDeployment", "deployPulse", "speedUpdate",
                       "DeploymentManager::start", "DeploymentManager::stop"}) =>
          LET target == CASE dm.currentStage = "DROP" -> dm.targetDropDepth
                          [] dm.currentStage = "DEPLOY_30" -> dm.chain30
                          [] dm.currentStage = "DEPLOY_75" -> dm.chain75
                          [] dm.currentStage = "DEPLOY_100" -> dm.totalChainLength
                          [] OTHER -> 0
              lowers == \E i \in DOMAIN relayLog' : relayLog'[i].down
          IN  /\ \A i \in DOMAIN relayLog' : ~relayLog'[i].up
              /\ lowers =>
                   /\ dm.isRunning
                   /\ cc'.start_position_ = rode
                   /\ cc'.target_ <= target
                   /\ cc'.target_ <= dm.totalChainLength
                   /\ dm.currentStage # "DROP" => cc.state_ = "IDLE"
              /\ ~lowers => cc'.target_ = cc.target_]_vars

(* the pulse of DEPLOY_100 has commanded the rest of the chain *)
C40_Witness ==
    /\ op.name = "deployPulse"
    /\ dm.isRunning /\ dm.currentStage = "DEPLOY_100"
    /\ cc.state_ = "LOWERING" /\ pins.down
    /\ cc.start_position_ = rode
    /\ cc.target_ = dm.totalChainLength
====
